---- MODULE Spec2Model ----
(***************************************************************************)
(* furs-client-ts: the fiscal code construction and token engine.          *)
(*                                                                         *)
(* A JavaScript string is a sequence of one-character strings, a thrown    *)
(* exception is a result record with threw = TRUE, and every operation of  *)
(* the library is an action that draws its arguments from bounded sets and *)
(* records what the call returned, threw and handed to a renderer.         *)
(***************************************************************************)
EXTENDS Integers, Sequences, FiniteSets, TLC

VARIABLES
    call,       \* the call in progress: the operation and its arguments
    result,     \* what the call returned or threw, and what it handed to renderers
    earlier,    \* an earlier createJWT call, remembered: its arguments and its token
    now,        \* the wall clock, in ticks
    client,     \* the FursClient that was constructed, if any: its private fields
    pending     \* the HTTPS requests in flight, each with the call that waits for it

vars == <<call, result, earlier, now, client, pending>>

----------------------------------------------------------------------------
(* Bounds of the model.                                                    *)

MaxZoiSeed == 3     \* generated ZOIs, besides the fixed ones
MaxDataSeed == 3    \* generated 60-character code data strings
MaxParts == 7       \* part counts run from -1 to MaxParts
MaxKeys == 2        \* private keys
MaxNow == 1         \* the clock runs from 0 to MaxNow
MaxPending == 1     \* requests in flight at a time
MaxTextLen == 3     \* code units of a string that is encoded

----------------------------------------------------------------------------
(* Strings, characters and numbers as JavaScript has them.                 *)

DigitChars == <<"0", "1", "2", "3", "4", "5", "6", "7", "8", "9">>
HexChars == <<"0", "1", "2", "3", "4", "5", "6", "7", "8", "9",
              "a", "b", "c", "d", "e", "f">>
UpperHexChars == <<"0", "1", "2", "3", "4", "5", "6", "7", "8", "9",
                   "A", "B", "C", "D", "E", "F">>
WhitespaceChars == {" ", "\t", "\n", "\r"}

\* const name = value; ...: the value is computed once and the rest uses it
Bind(v, Rest(_)) == CHOOSE out \in {Rest(x) : x \in {v}} : TRUE

Range(s) == {s[i] : i \in 1..Len(s)}
IndexOf(c, s) == CHOOSE i \in 1..Len(s) : s[i] = c

DigitCharSet == Range(DigitChars)
HexCharSet == Range(HexChars)
UpperHexCharSet == Range(UpperHexChars)
DigitValOf == [c \in DigitCharSet |-> IndexOf(c, DigitChars) - 1]
HexValOf == [c \in HexCharSet \cup UpperHexCharSet |->
                IF c \in HexCharSet THEN IndexOf(c, HexChars) - 1
                ELSE IndexOf(c, UpperHexChars) - 1]

IsDigit(c) == c \in DigitCharSet
IsHexDigit(c) == c \in HexCharSet \cup UpperHexCharSet
DigitVal(c) == DigitValOf[c]
HexVal(c) == HexValOf[c]

\* String.prototype.toLowerCase, on the letters a hexadecimal string can hold
ToLowerChar(c) == IF c \in UpperHexCharSet THEN HexChars[HexValOf[c] + 1] ELSE c
ToLowerCase(s) == [i \in 1..Len(s) |-> ToLowerChar(s[i])]

\* s.replace(/\s/g, '')
RemoveWhitespace(s) == SelectSeq(s, LAMBDA c : c \notin WhitespaceChars)

Repeat(c, n) == [i \in 1..n |-> c]

\* String.prototype.padStart(targetLength, padChar)
PadStart(s, targetLength, c) ==
    IF Len(s) >= targetLength THEN s ELSE Repeat(c, targetLength - Len(s)) \o s

\* String.prototype.slice(start, end) with 0 <= start, 0 <= end (0-based, end exclusive)
Slice(s, start, end) ==
    LET from == IF start > Len(s) THEN Len(s) ELSE start
        to == IF end > Len(s) THEN Len(s) ELSE end
    IN  IF to <= from THEN <<>> ELSE SubSeq(s, from + 1, to)

\* String.prototype.slice(-n): the last n characters
SliceLast(s, n) == IF Len(s) <= n THEN s ELSE SubSeq(s, Len(s) - n + 1, Len(s))

RECURSIVE NatToString(_)
NatToString(n) ==
    IF n < 10 THEN <<DigitChars[n + 1]>>
    ELSE NatToString(n \div 10) \o <<DigitChars[(n % 10) + 1]>>

\* Number.prototype.toString() of an integer
IntToString(n) == IF n < 0 THEN <<"-">> \o NatToString(-n) ELSE NatToString(n)

\* A JavaScript number that may be NaN
Num(n) == [nan |-> FALSE, n |-> n]
NaN == [nan |-> TRUE, n |-> 0]
NaNString == <<"N", "a", "N">>
NumberToString(x) == IF x.nan THEN NaNString ELSE IntToString(x.n)
NumAdd(x, y) == IF x.nan \/ y.nan THEN NaN ELSE Num(x.n + y.n)
NumMod(x, m) == IF x.nan THEN NaN ELSE Num(x.n % m)

\* parseInt(c, 10) of a one-character string
ParseIntChar(c) == IF IsDigit(c) THEN Num(DigitVal(c)) ELSE NaN

----------------------------------------------------------------------------
(* Unbounded integers (BigInt): little-endian limb sequences in a base,    *)
(* zero being the empty sequence. Digits are taken LimbDigits at a time,   *)
(* so that every product stays a machine integer.                          *)

LimbDigits == 4

RECURSIVE Pow(_, _)
Pow(b, n) == IF n = 0 THEN 1 ELSE b * Pow(b, n - 1)

RECURSIVE BigMulAdd(_, _, _, _)
\* limbs * m + carry, in the given base
BigMulAdd(limbs, m, carry, base) ==
    IF limbs = <<>>
    THEN IF carry = 0 THEN <<>>
         ELSE <<carry % base>> \o BigMulAdd(<<>>, m, carry \div base, base)
    ELSE LET prod == Head(limbs) * m + carry
         IN  <<prod % base>> \o BigMulAdd(Tail(limbs), m, prod \div base, base)

\* the big-endian digit values ds in base b, as big-endian chunks of LimbDigits
\* digits, each chunk a number below b^LimbDigits (the first chunk may be short)
Chunks(ds, b) ==
    LET n == Len(ds)
        count == (n + LimbDigits - 1) \div LimbDigits
        first == n - (count - 1) * LimbDigits
        digitAt(c, j) == LET i == first + (c - 2) * LimbDigits + j
                         IN  IF i < 1 THEN 0 ELSE ds[i]
        chunk(c) == ((digitAt(c, 1) * b + digitAt(c, 2)) * b + digitAt(c, 3)) * b
                    + digitAt(c, 4)
    IN  [c \in 1..count |-> chunk(c)]

RECURSIVE BigFromChunks(_, _, _, _)
\* the number whose big-endian chunks (each below m) are cs, on top of acc, in base
BigFromChunks(cs, m, base, acc) ==
    IF cs = <<>> THEN acc
    ELSE BigFromChunks(Tail(cs), m, base, BigMulAdd(acc, m, Head(cs), base))

\* the number with big-endian digit values ds in base from, as limbs in base to^LimbDigits
BigFromDigits(ds, from, to) ==
    BigFromChunks(Chunks(ds, from), Pow(from, LimbDigits), Pow(to, LimbDigits), <<>>)

\* the big-endian digit values in base b of a number given as limbs in base b^LimbDigits,
\* without leading zeros (zero has no digits)
BigToDigits(limbs, b) ==
    LET n == Len(limbs)
        all == [i \in 1..(n * LimbDigits) |->
                   LET limb == limbs[n - ((i - 1) \div LimbDigits)]
                       j == (i - 1) % LimbDigits
                   IN  (limb \div Pow(b, LimbDigits - 1 - j)) % b]
        lead == IF \E i \in 1..Len(all) : all[i] # 0
                THEN CHOOSE i \in 1..Len(all) : all[i] # 0 /\ \A k \in 1..(i - 1) : all[k] = 0
                ELSE Len(all) + 1
    IN  SubSeq(all, lead, Len(all))

\* BigInt.prototype.toString(10)
BigToDecimalString(limbs) ==
    LET ds == BigToDigits(limbs, 10)
    IN  IF ds = <<>> THEN <<"0">> ELSE [i \in 1..Len(ds) |-> DigitChars[ds[i] + 1]]

----------------------------------------------------------------------------
(* What a call gives back: a value, or a thrown error.                     *)

Ok(v) == [threw |-> FALSE, error |-> "", value |-> v]
Throw(msg) == [threw |-> TRUE, error |-> msg, value |-> <<>>]

----------------------------------------------------------------------------
(* Date objects: the calendar fields in the process's local time zone, or  *)
(* an Invalid Date, whose every getter returns NaN.                        *)

DateOf(y, mo, d, h, mi, s) ==
    [valid |-> TRUE, year |-> y, month |-> mo, date |-> d,
     hours |-> h, minutes |-> mi, seconds |-> s]
InvalidDate == [valid |-> FALSE, year |-> 0, month |-> 0, date |-> 0,
                hours |-> 0, minutes |-> 0, seconds |-> 0]

getFullYear(d) == IF d.valid THEN Num(d.year) ELSE NaN
getMonth(d) == IF d.valid THEN Num(d.month) ELSE NaN
getDate(d) == IF d.valid THEN Num(d.date) ELSE NaN
getHours(d) == IF d.valid THEN Num(d.hours) ELSE NaN
getMinutes(d) == IF d.valid THEN Num(d.minutes) ELSE NaN
getSeconds(d) == IF d.valid THEN Num(d.seconds) ELSE NaN

AllDigits(s) == \A i \in 1..Len(s) : IsDigit(s[i])

RECURSIVE DigitsToNat(_, _)
DigitsToNat(s, acc) ==
    IF s = <<>> THEN acc ELSE DigitsToNat(Tail(s), acc * 10 + DigitVal(Head(s)))

\* new Date(string), on the date-time form YYYY-MM-DDTHH:mm:ss, which is read as
\* local time. The strings given to it here hold no day after the 28th, and every
\* other string given to it is no date at all.
NewDate(s) ==
    IF /\ Len(s) = 19
       /\ s[5] = "-" /\ s[8] = "-" /\ s[11] = "T" /\ s[14] = ":" /\ s[17] = ":"
       /\ AllDigits(SubSeq(s, 1, 4)) /\ AllDigits(SubSeq(s, 6, 7))
       /\ AllDigits(SubSeq(s, 9, 10)) /\ AllDigits(SubSeq(s, 12, 13))
       /\ AllDigits(SubSeq(s, 15, 16)) /\ AllDigits(SubSeq(s, 18, 19))
    THEN LET y == DigitsToNat(SubSeq(s, 1, 4), 0)
             mo == DigitsToNat(SubSeq(s, 6, 7), 0)
             d == DigitsToNat(SubSeq(s, 9, 10), 0)
             h == DigitsToNat(SubSeq(s, 12, 13), 0)
             mi == DigitsToNat(SubSeq(s, 15, 16), 0)
             se == DigitsToNat(SubSeq(s, 18, 19), 0)
         IN  IF mo \in 1..12 /\ d \in 1..28 /\ h \in 0..23 /\ mi \in 0..59 /\ se \in 0..59
             THEN DateOf(y, mo - 1, d, h, mi, se)
             ELSE InvalidDate
    ELSE InvalidDate

\* An argument of type Date | string
DateArg(d) == [isString |-> FALSE, str |-> <<>>, date |-> d]
StringArg(s) == [isString |-> TRUE, str |-> s, date |-> InvalidDate]

\* typeof date === 'string' ? new Date(date) : date
ToDateObj(date) == IF date.isString THEN NewDate(date.str) ELSE date.date

----------------------------------------------------------------------------
(* utils/codeFormatter: the 60-digit code data.                            *)

\* BigInt('0x' + cleanHex) accepts one or more hexadecimal digits and nothing else
IsBigIntHex(cleanHex) ==
    cleanHex # <<>> /\ \A i \in 1..Len(cleanHex) : IsHexDigit(cleanHex[i])

\* the conversion without the padding
hexToDecimalUnpadded(hex, targetLength) ==
    LET cleanHex == ToLowerCase(RemoveWhitespace(hex))
    IN  IF ~IsBigIntHex(cleanHex) THEN Throw("SyntaxError: Cannot convert to a BigInt")
        ELSE Ok(BigToDecimalString(
                 BigFromDigits([i \in 1..Len(cleanHex) |-> HexVal(cleanHex[i])], 16, 10)))

hexToDecimalPadded(hex, targetLength) ==
    LET cleanHex == ToLowerCase(RemoveWhitespace(hex))
    IN  IF ~IsBigIntHex(cleanHex) THEN Throw("SyntaxError: Cannot convert to a BigInt")
        ELSE LET decimal == BigToDecimalString(
                     BigFromDigits([i \in 1..Len(cleanHex) |-> HexVal(cleanHex[i])], 16, 10))
             IN  Ok(PadStart(decimal, targetLength, "0"))

formatDateForCode(date) ==
    LET dateObj == ToDateObj(date)
        year == SliceLast(NumberToString(getFullYear(dateObj)), 2)
        month == PadStart(NumberToString(NumAdd(getMonth(dateObj), Num(1))), 2, "0")
        day == PadStart(NumberToString(getDate(dateObj)), 2, "0")
        hours == PadStart(NumberToString(getHours(dateObj)), 2, "0")
        minutes == PadStart(NumberToString(getMinutes(dateObj)), 2, "0")
        seconds == PadStart(NumberToString(getSeconds(dateObj)), 2, "0")
    IN  year \o month \o day \o hours \o minutes \o seconds

\* dataString.split('').reduce((acc, digit) => acc + parseInt(digit, 10), 0):
\* the sum of the digits, NaN as soon as one character is no digit
RECURSIVE SumRange(_, _, _)
SumRange(s, lo, hi) ==
    IF lo > hi THEN 0
    ELSE IF lo = hi THEN DigitVal(s[lo])
    ELSE LET mid == (lo + hi) \div 2
         IN  SumRange(s, lo, mid) + SumRange(s, mid + 1, hi)

SumDigits(s) ==
    IF \E i \in 1..Len(s) : (ParseIntChar(s[i])).nan THEN NaN
    ELSE Num(SumRange(s, 1, Len(s)))

\* the complement to ten of the sum of the digits
calculateControlCharacterComplement(dataString) ==
    Bind(SumDigits(dataString), LAMBDA sum :
        IF sum.nan THEN NaNString ELSE IntToString((10 - (sum.n % 10)) % 10))

calculateControlCharacter(dataString) ==
    NumberToString(NumMod(SumDigits(dataString), 10))

formatCodeData(z, t, d) ==
    Bind(hexToDecimalPadded(z, 39), LAMBDA zoiDecimal :
        IF zoiDecimal.threw THEN zoiDecimal
        ELSE Bind(zoiDecimal.value \o PadStart(IntToString(t), 8, "0")
                      \o formatDateForCode(d), LAMBDA dataWithoutControl :
                 Ok(dataWithoutControl \o calculateControlCharacter(dataWithoutControl))))

\* /^[0-9a-fA-F]{32}$/.test(zoi)
validateZOI(z) == Len(z) = 32 /\ \A i \in 1..Len(z) : IsHexDigit(z[i])

\* /^\d{8}$/.test(taxNumber.toString())
validateTaxNumber(t) == LET str == IntToString(t) IN Len(str) = 8 /\ AllDigits(str)

dataPerPartOf(n) ==
    CASE n = 2 -> 30
      [] n = 3 -> 20
      [] n = 4 -> 15
      [] n = 5 -> 12
      [] n = 6 -> 10

\* a table that gives every part count the one-character prefix
prefixOfSingle(n) == <<"4">>

prefixOf(n) == IF n = 4 THEN <<"4", "4">> ELSE <<"4">>

\* prefix.length + 1: the prefix and the sequence number
prefixLengthOf(prefix) == Len(prefix) + 1

splitForCode128(cd, n) ==
    IF n < 2 \/ n > 6 THEN Throw("Number of parts must be between 2 and 6")
    ELSE IF Len(cd) # 60 THEN Throw("Code data must be exactly 60 digits")
    ELSE LET prefix == prefixOf(n)
             dataPerPart == dataPerPartOf(n)
             actualDataPerPart == dataPerPart - prefixLengthOf(prefix)
             part(i) == LET sequenceNumber == IntToString(i + 1)
                            startIdx == i * actualDataPerPart
                            endIdx == startIdx + actualDataPerPart
                        IN  prefix \o sequenceNumber \o Slice(cd, startIdx, endIdx)
         IN  Ok([k \in 1..n |-> part(k - 1)])

----------------------------------------------------------------------------
(* services: what each service hands to its rendering library. A result     *)
(* record carries, besides value, the library calls made: lib and text.     *)

Handed(lib, data) == [lib |-> lib, text |-> data]

WithCalls(res, calls) ==
    Bind(res, LAMBDA r :
        [threw |-> r.threw, error |-> r.error, value |-> r.value, calls |-> calls])

\* code128Options.parts || 3, parts absent being 0
partsOrDefault(n) == IF n = 0 THEN 3 ELSE n

\* qrCodeService: every generateQRCode* formats the code data and passes it to QRCode
generateQRCodeService(z, t, d) ==
    Bind(formatCodeData(z, t, d), LAMBDA data :
        IF data.threw THEN WithCalls(data, <<>>)
        ELSE WithCalls(data, <<Handed("qrcode", data.value)>>))

\* pdf417Service: generatePDF417Buffer and generatePDF417SVG pass the code data to
\* bwip-js (and draw a placeholder, from the same code data, when bwip-js fails)
generatePDF417Service(z, t, d) ==
    Bind(formatCodeData(z, t, d), LAMBDA data :
        IF data.threw THEN WithCalls(data, <<>>)
        ELSE WithCalls(data, <<Handed("bwip-js", data.value)>>))

\* code128Service.generateCode128Buffer: one JsBarcode call per part
generateCode128Buffer(z, t, d, n) ==
    Bind(formatCodeData(z, t, d), LAMBDA data :
        IF data.threw THEN WithCalls(data, <<>>)
        ELSE Bind(splitForCode128(data.value, partsOrDefault(n)), LAMBDA splitData :
                 IF splitData.threw THEN WithCalls(splitData, <<>>)
                 ELSE WithCalls(data, [i \in 1..Len(splitData.value) |->
                                          Handed("jsbarcode", splitData.value[i])])))

\* code128Service.generateCode128SVG: the parts are written into the SVG as text
generateCode128SVG(z, t, d, n) ==
    Bind(formatCodeData(z, t, d), LAMBDA data :
        IF data.threw THEN WithCalls(data, <<>>)
        ELSE Bind(splitForCode128(data.value, partsOrDefault(n)), LAMBDA splitData :
                 IF splitData.threw THEN WithCalls(splitData, <<>>)
                 ELSE WithCalls(data, <<>>)))

\* code128Service.getCode128Strings
getCode128Strings(z, t, d, n) ==
    Bind(formatCodeData(z, t, d), LAMBDA data :
        IF data.threw THEN data ELSE splitForCode128(data.value, n))

----------------------------------------------------------------------------
(* services/codeGenerator: FursCodeGenerator.                               *)

CodeTypes == {"QR", "PDF417", "CODE128"}
CodeFormats == {"buffer", "dataUrl", "svg", "file", "terminal", "strings"}

\* The options of generateCode: parts is code128Options.parts (0 when absent)
OptionsOf(type, format, hasFilePath, n) ==
    [type |-> type, format |-> format, hasFilePath |-> hasFilePath, parts |-> n]

FilePathRequired == Throw("File path is required for FILE format")

generateQRCode(z, t, d, o) ==
    IF o.format \in {"buffer", "dataUrl", "svg", "terminal"} THEN generateQRCodeService(z, t, d)
    ELSE IF o.format = "file"
    THEN IF ~o.hasFilePath THEN WithCalls(FilePathRequired, <<>>)
         ELSE generateQRCodeService(z, t, d)
    ELSE WithCalls(Throw("Unsupported format for QR code"), <<>>)

generatePDF417Code(z, t, d, o) ==
    IF o.format \in {"buffer", "dataUrl", "svg"} THEN generatePDF417Service(z, t, d)
    ELSE IF o.format = "file"
    THEN IF ~o.hasFilePath THEN WithCalls(FilePathRequired, <<>>)
         ELSE generatePDF417Service(z, t, d)
    ELSE WithCalls(Throw("Unsupported format for PDF417 code"), <<>>)

\* the image of a Code128 call carries no strings
ImageOf(res) ==
    Bind(res, LAMBDA r : WithCalls(IF r.threw THEN r ELSE Ok(<<>>), r.calls))

\* the value is the string array under the format strings, and <<>> for an image
generateCode128Code(z, t, d, o) ==
    IF o.format \in {"buffer", "dataUrl"} THEN ImageOf(generateCode128Buffer(z, t, d, o.parts))
    ELSE IF o.format = "svg" THEN ImageOf(generateCode128SVG(z, t, d, o.parts))
    ELSE IF o.format = "file"
    THEN IF ~o.hasFilePath THEN WithCalls(FilePathRequired, <<>>)
         ELSE ImageOf(generateCode128Buffer(z, t, d, o.parts))
    ELSE IF o.format = "strings"
    THEN WithCalls(getCode128Strings(z, t, d, partsOrDefault(o.parts)), <<>>)
    ELSE WithCalls(Throw("Unsupported format for Code128"), <<>>)

\* what generateCode throws or returns
GeneratorFailure(error, calls) ==
    [threw |-> TRUE, error |-> error, formattedData |-> <<>>, data |-> <<>>,
     calls |-> calls]

\* FursCodeGenerator.generateCode: formattedData, data (the string array, if any) and
\* the library calls made on the way
generateCode(z, t, d, o) ==
    IF ~validateZOI(z)
    THEN GeneratorFailure("Invalid ZOI format. Must be 32 hexadecimal characters.", <<>>)
    ELSE IF ~validateTaxNumber(t)
    THEN GeneratorFailure("Invalid tax number. Must be 8 digits.", <<>>)
    ELSE Bind(formatCodeData(z, t, d), LAMBDA formattedData :
        IF formattedData.threw THEN GeneratorFailure(formattedData.error, <<>>)
        ELSE Bind(CASE o.type = "QR" -> generateQRCode(z, t, d, o)
                    [] o.type = "PDF417" -> generatePDF417Code(z, t, d, o)
                    [] o.type = "CODE128" -> generateCode128Code(z, t, d, o)
                    [] OTHER -> WithCalls(Throw("Unsupported code type"), <<>>),
                  LAMBDA r :
            IF r.threw THEN GeneratorFailure(r.error, r.calls)
            ELSE [threw |-> FALSE, error |-> "",
                  formattedData |-> formattedData.value,
                  data |-> IF o.type = "CODE128" /\ o.format = "strings"
                           THEN r.value ELSE <<>>,
                  calls |-> r.calls]))

----------------------------------------------------------------------------
(* Text that is turned into bytes: a string is a sequence of UTF-16 code   *)
(* units, a Buffer a sequence of bytes.                                    *)

\* the characters of codes 32 to 95, and those of codes 97 to 126
PrintableChars ==
    <<" ", "!", "\"", "#", "$", "%", "&", "'", "(", ")", "*", "+", ",", "-", ".", "/",
      "0", "1", "2", "3", "4", "5", "6", "7", "8", "9", ":", ";", "<", "=", ">", "?",
      "@", "A", "B", "C", "D", "E", "F", "G", "H", "I", "J", "K", "L", "M", "N", "O",
      "P", "Q", "R", "S", "T", "U", "V", "W", "X", "Y", "Z", "[", "\\", "]", "^", "_">>
LowerCaseChars ==
    <<"a", "b", "c", "d", "e", "f", "g", "h", "i", "j", "k", "l", "m", "n", "o",
      "p", "q", "r", "s", "t", "u", "v", "w", "x", "y", "z", "{", "|", "}", "~">>

\* String.prototype.charCodeAt of a printable ASCII character
CharCodeOf ==
    [c \in Range(PrintableChars) \cup Range(LowerCaseChars) |->
        IF c \in Range(PrintableChars) THEN 31 + IndexOf(c, PrintableChars)
        ELSE 96 + IndexOf(c, LowerCaseChars)]

\* the code units of a string of printable ASCII characters
Text(s) == [i \in 1..Len(s) |-> CharCodeOf[s[i]]]

RECURSIVE FlattenRange(_, _, _)
FlattenRange(ss, lo, hi) ==
    IF lo > hi THEN <<>>
    ELSE IF lo = hi THEN ss[lo]
    ELSE LET mid == (lo + hi) \div 2
         IN  FlattenRange(ss, lo, mid) \o FlattenRange(ss, mid + 1, hi)

\* the concatenation of a sequence of sequences
Flatten(ss) == Bind(ss, LAMBDA x : FlattenRange(x, 1, Len(x)))

\* the first index from i on whose element is not in set, Len(s) + 1 if there is none
SkipWhile(s, i, set) ==
    CHOOSE j \in i..(Len(s) + 1) :
        /\ j = Len(s) + 1 \/ s[j] \notin set
        /\ \A k \in i..(j - 1) : s[k] \in set

\* the first index from i on whose element is c, Len(s) + 1 if there is none
FirstIndexOf(s, i, c) ==
    CHOOSE j \in i..(Len(s) + 1) :
        /\ j = Len(s) + 1 \/ s[j] = c
        /\ \A k \in i..(j - 1) : s[k] # c

\* String.prototype.split(sep) on a one-character separator
Split(str, sep) ==
    Bind(str, LAMBDA s :
    Bind(SelectSeq([i \in 1..Len(s) |-> IF s[i] = sep THEN i ELSE 0], LAMBDA i : i > 0),
         LAMBDA at :
            [k \in 1..(Len(at) + 1) |->
                SubSeq(s, IF k = 1 THEN 1 ELSE at[k - 1] + 1,
                          IF k = Len(at) + 1 THEN Len(s) ELSE at[k] - 1)]))

\* String.prototype.replace(/c/g, by), by being a string
ReplaceAll(str, c, by) ==
    Bind(str, LAMBDA s : Flatten([i \in 1..Len(s) |-> IF s[i] = c THEN by ELSE <<s[i]>>]))

IsHighSurrogate(u) == u \in 55296..56319
IsLowSurrogate(u) == u \in 56320..57343
ReplacementChar == <<65533>>

\* the UTF-8 bytes of a code point
Utf8OfCodePoint(cp) ==
    IF cp < 128 THEN <<cp>>
    ELSE IF cp < 2048 THEN <<192 + (cp \div 64), 128 + (cp % 64)>>
    ELSE IF cp < 65536
    THEN <<224 + (cp \div 4096), 128 + ((cp \div 64) % 64), 128 + (cp % 64)>>
    ELSE <<240 + (cp \div 262144), 128 + ((cp \div 4096) % 64),
           128 + ((cp \div 64) % 64), 128 + (cp % 64)>>

\* the bytes of Buffer.from(str, 'latin1'): the low byte of each code unit
Latin1Encode(str) == [i \in 1..Len(str) |-> str[i] % 256]

\* Buffer.from(s, 'utf8'): a surrogate pair is one code point, a lone surrogate is
\* written as U+FFFD
Utf8Encode(str) ==
    Bind(str, LAMBDA s :
        Flatten([i \in 1..Len(s) |->
            IF IsHighSurrogate(s[i])
            THEN IF i < Len(s) /\ IsLowSurrogate(s[i + 1])
                 THEN Utf8OfCodePoint(65536 + (s[i] - 55296) * 1024 + (s[i + 1] - 56320))
                 ELSE Utf8OfCodePoint(65533)
            ELSE IF IsLowSurrogate(s[i])
            THEN IF i > 1 /\ IsHighSurrogate(s[i - 1]) THEN <<>>
                 ELSE Utf8OfCodePoint(65533)
            ELSE Utf8OfCodePoint(s[i])]))

\* the number of continuation bytes a UTF-8 lead byte asks for; 0 for ASCII, -1 for a
\* byte that can start nothing
Utf8Needed(b) ==
    IF b < 128 THEN 0
    ELSE IF b \in 194..223 THEN 1
    ELSE IF b \in 224..239 THEN 2
    ELSE IF b \in 240..244 THEN 3
    ELSE -1

\* the bytes that may follow lead byte b as its k-th continuation byte
Utf8Continuation(b, k) ==
    IF k > 1 THEN 128..191
    ELSE IF b = 224 THEN 160..191
    ELSE IF b = 237 THEN 128..159
    ELSE IF b = 240 THEN 144..191
    ELSE IF b = 244 THEN 128..143
    ELSE 128..191

\* how many of the continuation bytes the lead byte at i asks for do follow it
Utf8Extent(bytes, i) ==
    LET fits(k) == /\ i + k <= Len(bytes)
                   /\ bytes[i + k] \in Utf8Continuation(bytes[i], k)
    IN  IF Utf8Needed(bytes[i]) < 1 THEN 0
        ELSE IF ~fits(1) THEN 0
        ELSE IF Utf8Needed(bytes[i]) < 2 \/ ~fits(2) THEN 1
        ELSE IF Utf8Needed(bytes[i]) < 3 \/ ~fits(3) THEN 2
        ELSE 3

\* the code units of a code point
Utf16OfCodePoint(cp) ==
    IF cp < 65536 THEN <<cp>>
    ELSE <<55296 + ((cp - 65536) \div 1024), 56320 + ((cp - 65536) % 1024)>>

\* buf.toString('utf8'): a well-formed sequence is its code point, and every
\* ill-formed one (a stray byte, a sequence cut short) is one U+FFFD
Utf8Decode(buf) ==
    Bind(buf, LAMBDA bytes :
        LET taken(i) == \E k \in 1..3 : i - k >= 1 /\ Utf8Extent(bytes, i - k) >= k
            unit(i) ==
                LET b == bytes[i]
                    n == Utf8Needed(b)
                IN  IF taken(i) THEN <<>>
                    ELSE IF n = 0 THEN <<b>>
                    ELSE IF n < 0 \/ Utf8Extent(bytes, i) < n THEN ReplacementChar
                    ELSE IF n = 1
                    THEN Utf16OfCodePoint((b - 192) * 64 + (bytes[i + 1] - 128))
                    ELSE IF n = 2
                    THEN Utf16OfCodePoint((b - 224) * 4096 + (bytes[i + 1] - 128) * 64
                                          + (bytes[i + 2] - 128))
                    ELSE Utf16OfCodePoint((b - 240) * 262144 + (bytes[i + 1] - 128) * 4096
                                          + (bytes[i + 2] - 128) * 64 + (bytes[i + 3] - 128))
        IN  Flatten([i \in 1..Len(bytes) |-> unit(i)]))

\* the character of a 6-bit value in the base64 alphabet
Base64Char(v) ==
    IF v < 26 THEN 65 + v
    ELSE IF v < 52 THEN 97 + (v - 26)
    ELSE IF v < 62 THEN 48 + (v - 52)
    ELSE IF v = 62 THEN 43
    ELSE 47

\* the 6-bit value of a character, in the base64 and in the base64url alphabet;
\* -1 for any other character
unbase64(c) ==
    IF c \in 65..90 THEN c - 65
    ELSE IF c \in 97..122 THEN c - 97 + 26
    ELSE IF c \in 48..57 THEN c - 48 + 52
    ELSE IF c = 43 \/ c = 45 THEN 62
    ELSE IF c = 47 \/ c = 95 THEN 63
    ELSE -1

\* buf.toString('base64') and forge.util.encode64: the standard alphabet, padded
\* with '=' to a multiple of four characters
Base64Encode(buf) ==
    Bind(buf, LAMBDA bytes :
        LET n == Len(bytes)
            byteAt(i) == IF i <= n THEN bytes[i] ELSE 0
            charAt(k) ==
                LET g == 3 * ((k - 1) \div 4)
                    pos == (k - 1) % 4
                    b0 == byteAt(g + 1)
                    b1 == byteAt(g + 2)
                    b2 == byteAt(g + 3)
                IN  IF pos = 0 THEN Base64Char(b0 \div 4)
                    ELSE IF pos = 1 THEN Base64Char((b0 % 4) * 16 + (b1 \div 16))
                    ELSE IF pos = 2
                    THEN IF g + 2 > n THEN 61
                         ELSE Base64Char((b1 % 16) * 4 + (b2 \div 64))
                    ELSE IF g + 3 > n THEN 61 ELSE Base64Char(b2 % 64)
        IN  [k \in 1..(4 * ((n + 2) \div 3)) |-> charAt(k)])

\* Buffer.from(s, 'base64'): characters outside the alphabets are skipped, decoding
\* stops at the first '=', and a last group of two or three characters gives one or
\* two bytes
Base64Decode(str) ==
    Bind(str, LAMBDA s :
    Bind(SelectSeq(SubSeq(s, 1, FirstIndexOf(s, 1, 61) - 1), LAMBDA c : unbase64(c) >= 0),
         LAMBDA legal :
        LET m == Len(legal)
            count == 3 * (m \div 4) + (IF m % 4 = 0 THEN 0 ELSE (m % 4) - 1)
            v(i) == unbase64(legal[i])
            byteAt(j) ==
                LET g == 4 * ((j - 1) \div 3)
                    pos == (j - 1) % 3
                IN  IF pos = 0 THEN v(g + 1) * 4 + (v(g + 2) \div 16)
                    ELSE IF pos = 1 THEN (v(g + 2) % 16) * 16 + (v(g + 3) \div 4)
                    ELSE (v(g + 3) % 4) * 64 + v(g + 4)
        IN  [j \in 1..count |-> byteAt(j)]))

----------------------------------------------------------------------------
(* JSON. A value is a record: t its type, s the text of a string (or the   *)
(* digits of a number, or true/false), keys the property names of an       *)
(* object in order, vals the property values or the elements of an array.  *)

JSONValue(t, s, keys, vals) == [t |-> t, s |-> s, keys |-> keys, vals |-> vals]
JSONNull == JSONValue("null", <<>>, <<>>, <<>>)
JSONBoolean(b) == JSONValue("boolean", IF b THEN Text(<<"t", "r", "u", "e">>)
                                       ELSE Text(<<"f", "a", "l", "s", "e">>), <<>>, <<>>)
\* an integer: Number.prototype.toString gives its decimal digits
JSONNumber(n) == JSONValue("number", Text(IntToString(n)), <<>>, <<>>)
JSONString(s) == JSONValue("string", s, <<>>, <<>>)
JSONArray(vals) == JSONValue("array", <<>>, <<>>, vals)
JSONObject(keys, vals) == JSONValue("object", <<>>, keys, vals)

\* four lower-case hexadecimal digits
Hex4(n) ==
    Text(<<HexChars[((n \div 4096) % 16) + 1], HexChars[((n \div 256) % 16) + 1],
           HexChars[((n \div 16) % 16) + 1], HexChars[(n % 16) + 1]>>)

\* QuoteJSONString of JSON.stringify: the quote and the backslash are escaped,
\* control characters and lone surrogates are written as escapes
QuoteJSONString(str) ==
    Bind(str, LAMBDA s :
        LET lone(i) == \/ /\ IsHighSurrogate(s[i])
                          /\ ~(i < Len(s) /\ IsLowSurrogate(s[i + 1]))
                       \/ /\ IsLowSurrogate(s[i])
                          /\ ~(i > 1 /\ IsHighSurrogate(s[i - 1]))
            unit(i) ==
                IF s[i] = 34 THEN <<92, 34>>
                ELSE IF s[i] = 92 THEN <<92, 92>>
                ELSE IF s[i] = 8 THEN <<92, 98>>
                ELSE IF s[i] = 12 THEN <<92, 102>>
                ELSE IF s[i] = 10 THEN <<92, 110>>
                ELSE IF s[i] = 13 THEN <<92, 114>>
                ELSE IF s[i] = 9 THEN <<92, 116>>
                ELSE IF s[i] < 32 \/ lone(i) THEN <<92, 117>> \o Hex4(s[i])
                ELSE <<s[i]>>
        IN  <<34>> \o Flatten([i \in 1..Len(s) |-> unit(i)]) \o <<34>>)

\* items joined by commas
JoinComma(items) ==
    Bind(items, LAMBDA x :
        Flatten([i \in 1..Len(x) |-> IF i = 1 THEN x[i] ELSE <<44>> \o x[i]]))

RECURSIVE SerializeJSON(_)
\* JSON.stringify(value) without indentation, of a value that is no undefined
SerializeJSON(value) ==
    CASE value.t = "null" -> Text(<<"n", "u", "l", "l">>)
      [] value.t = "boolean" -> value.s
      [] value.t = "number" -> value.s
      [] value.t = "string" -> QuoteJSONString(value.s)
      [] value.t = "array" ->
            <<91>> \o JoinComma([i \in 1..Len(value.vals) |-> SerializeJSON(value.vals[i])])
            \o <<93>>
      [] value.t = "object" ->
            <<123>> \o JoinComma([i \in 1..Len(value.keys) |->
                          QuoteJSONString(value.keys[i]) \o <<58>>
                          \o SerializeJSON(value.vals[i])])
            \o <<125>>

JSONstringify(value) == Bind(value, LAMBDA v : SerializeJSON(v))

\* what the parser gives back: the value and the index after it, or a failure
Parsed(v, next) == [ok |-> TRUE, v |-> v, next |-> next]
ParseFailure == [ok |-> FALSE, v |-> JSONNull, next |-> 0]

JSONWhitespace == {32, 9, 10, 13}
DigitCodes == 48..57
HexDigitCodes == (48..57) \cup (65..70) \cup (97..102)
HexDigitValue(c) == IF c \in 48..57 THEN c - 48 ELSE IF c \in 65..70 THEN c - 55 ELSE c - 87

\* s has the characters of word from index i on
HasWord(s, i, word) ==
    i + Len(word) - 1 <= Len(s) /\ SubSeq(s, i, i + Len(word) - 1) = Text(word)

\* the number of backslashes that end right before index j, none before index from
BackslashRun(s, from, j) ==
    Cardinality({k \in 1..(j - from) : \A m \in 1..k : s[j - m] = 92})

\* a JSON string whose opening quote is at index i
ParseJSONString(s, i) ==
    LET closes(j) == s[j] = 34 /\ BackslashRun(s, i + 1, j) % 2 = 0
    IN  IF ~\E j \in (i + 1)..Len(s) : closes(j) THEN ParseFailure
        ELSE LET end == CHOOSE j \in (i + 1)..Len(s) :
                            closes(j) /\ \A k \in (i + 1)..(j - 1) : ~closes(k)
                 escape(p) == s[p] = 92 /\ BackslashRun(s, i + 1, p) % 2 = 0
                 unicode(p) == escape(p) /\ s[p + 1] = 117
                 taken(p) == \/ p - 1 > i /\ escape(p - 1)
                             \/ \E k \in 2..5 : p - k > i /\ unicode(p - k)
                 wellFormed(p) ==
                     IF taken(p) THEN TRUE
                     ELSE IF unicode(p)
                     THEN p + 5 < end /\ \A k \in 2..5 : s[p + k] \in HexDigitCodes
                     ELSE IF escape(p)
                     THEN s[p + 1] \in {34, 92, 47, 98, 102, 110, 114, 116}
                     ELSE s[p] >= 32
                 unit(p) ==
                     IF taken(p) THEN <<>>
                     ELSE IF unicode(p)
                     THEN <<HexDigitValue(s[p + 2]) * 4096 + HexDigitValue(s[p + 3]) * 256
                            + HexDigitValue(s[p + 4]) * 16 + HexDigitValue(s[p + 5])>>
                     ELSE IF escape(p)
                     THEN CASE s[p + 1] = 98 -> <<8>>
                            [] s[p + 1] = 102 -> <<12>>
                            [] s[p + 1] = 110 -> <<10>>
                            [] s[p + 1] = 114 -> <<13>>
                            [] s[p + 1] = 116 -> <<9>>
                            [] OTHER -> <<s[p + 1]>>
                     ELSE <<s[p]>>
             IN  IF \A p \in (i + 1)..(end - 1) : wellFormed(p)
                 THEN Parsed(JSONString(Flatten([k \in 1..(end - 1 - i) |-> unit(i + k)])),
                             end + 1)
                 ELSE ParseFailure

\* a JSON number that starts at index i: -?(0|[1-9][0-9]*)(.[0-9]+)?([eE][+-]?[0-9]+)?
\* The value keeps the digits as they are written; -0 is written 0.
ParseJSONNumber(s, i) ==
    LET at(j) == IF j <= Len(s) THEN s[j] ELSE 0
        int == IF at(i) = 45 THEN i + 1 ELSE i
        intEnd == IF at(int) = 48 THEN int + 1 ELSE SkipWhile(s, int, DigitCodes)
        fracEnd == IF at(intEnd) = 46 THEN SkipWhile(s, intEnd + 1, DigitCodes) ELSE intEnd
        exp == IF at(fracEnd) \in {69, 101}
               THEN IF at(fracEnd + 1) \in {43, 45} THEN fracEnd + 2 ELSE fracEnd + 1
               ELSE fracEnd
        expEnd == IF exp > fracEnd THEN SkipWhile(s, exp, DigitCodes) ELSE fracEnd
    IN  IF \/ intEnd = int
           \/ at(intEnd) = 46 /\ fracEnd = intEnd + 1
           \/ exp > fracEnd /\ expEnd = exp
        THEN ParseFailure
        ELSE Parsed(JSONValue("number",
                              IF SubSeq(s, i, expEnd - 1) = <<45, 48>> THEN <<48>>
                              ELSE SubSeq(s, i, expEnd - 1),
                              <<>>, <<>>),
                    expEnd)

\* an object with value v under key k: a repeated key keeps its place and takes the
\* later value
WithProperty(keys, vals, k, v) ==
    IF \E i \in 1..Len(keys) : keys[i] = k
    THEN JSONObject(keys, [i \in 1..Len(vals) |-> IF keys[i] = k THEN v ELSE vals[i]])
    ELSE JSONObject(Append(keys, k), Append(vals, v))

RECURSIVE ParseJSONValue(_, _)
RECURSIVE ParseJSONElements(_, _, _)
RECURSIVE ParseJSONMembers(_, _, _)

\* the elements of an array from index i on, after the elements vals
ParseJSONElements(s, i, vals) ==
    Bind(ParseJSONValue(s, i), LAMBDA e :
        IF ~e.ok THEN ParseFailure
        ELSE Bind(SkipWhile(s, e.next, JSONWhitespace), LAMBDA j :
            IF j > Len(s) THEN ParseFailure
            ELSE IF s[j] = 44 THEN ParseJSONElements(s, j + 1, Append(vals, e.v))
            ELSE IF s[j] = 93 THEN Parsed(JSONArray(Append(vals, e.v)), j + 1)
            ELSE ParseFailure))

\* the members of an object from index i on, after the members of obj
ParseJSONMembers(s, i, obj) ==
    Bind(SkipWhile(s, i, JSONWhitespace), LAMBDA k :
        IF k > Len(s) \/ s[k] # 34 THEN ParseFailure
        ELSE Bind(ParseJSONString(s, k), LAMBDA key :
            IF ~key.ok THEN ParseFailure
            ELSE Bind(SkipWhile(s, key.next, JSONWhitespace), LAMBDA c :
                IF c > Len(s) \/ s[c] # 58 THEN ParseFailure
                ELSE Bind(ParseJSONValue(s, c + 1), LAMBDA m :
                    IF ~m.ok THEN ParseFailure
                    ELSE Bind(SkipWhile(s, m.next, JSONWhitespace), LAMBDA j :
                        IF j > Len(s) THEN ParseFailure
                        ELSE IF s[j] = 44
                        THEN ParseJSONMembers(s, j + 1,
                                 WithProperty(obj.keys, obj.vals, key.v.s, m.v))
                        ELSE IF s[j] = 125
                        THEN Parsed(WithProperty(obj.keys, obj.vals, key.v.s, m.v), j + 1)
                        ELSE ParseFailure)))))

\* the JSON value that starts at index from, white space aside
ParseJSONValue(s, from) ==
    Bind(SkipWhile(s, from, JSONWhitespace), LAMBDA i :
        IF i > Len(s) THEN ParseFailure
        ELSE IF s[i] = 123
        THEN Bind(SkipWhile(s, i + 1, JSONWhitespace), LAMBDA j :
                IF j <= Len(s) /\ s[j] = 125 THEN Parsed(JSONObject(<<>>, <<>>), j + 1)
                ELSE ParseJSONMembers(s, i + 1, JSONObject(<<>>, <<>>)))
        ELSE IF s[i] = 91
        THEN Bind(SkipWhile(s, i + 1, JSONWhitespace), LAMBDA j :
                IF j <= Len(s) /\ s[j] = 93 THEN Parsed(JSONArray(<<>>), j + 1)
                ELSE ParseJSONElements(s, i + 1, <<>>))
        ELSE IF s[i] = 34 THEN ParseJSONString(s, i)
        ELSE IF s[i] = 45 \/ s[i] \in DigitCodes THEN ParseJSONNumber(s, i)
        ELSE IF HasWord(s, i, <<"t", "r", "u", "e">>) THEN Parsed(JSONBoolean(TRUE), i + 4)
        ELSE IF HasWord(s, i, <<"f", "a", "l", "s", "e">>)
        THEN Parsed(JSONBoolean(FALSE), i + 5)
        ELSE IF HasWord(s, i, <<"n", "u", "l", "l">>) THEN Parsed(JSONNull, i + 4)
        ELSE ParseFailure)

\* JSON.parse(text): the value, or a SyntaxError when text is not one JSON value
JSONparse(text) ==
    Bind(text, LAMBDA s :
    Bind(ParseJSONValue(s, 1), LAMBDA r :
        IF r.ok /\ SkipWhile(s, r.next, JSONWhitespace) > Len(s) THEN Ok(r.v)
        ELSE Throw("SyntaxError: Unexpected token in JSON")))

----------------------------------------------------------------------------
(* utils/jwt: the token.                                                   *)

\* an argument of type string | Buffer
StringInput(s) == [isString |-> TRUE, str |-> s, bytes |-> <<>>]
BufferInput(b) == [isString |-> FALSE, str |-> <<>>, bytes |-> b]

\* the encoding that keeps the padding
base64urlEncodePadded(input) ==
    Bind(IF input.isString THEN Base64Encode(Utf8Encode(input.str))
         ELSE Base64Encode(input.bytes),
         LAMBDA base64 : ReplaceAll(ReplaceAll(base64, 43, <<45>>), 47, <<95>>))

base64urlEncode(input) ==
    Bind(IF input.isString THEN Base64Encode(Utf8Encode(input.str))
         ELSE Base64Encode(input.bytes),
         LAMBDA base64 :
            ReplaceAll(ReplaceAll(ReplaceAll(base64, 43, <<45>>), 47, <<95>>), 61, <<>>))

\* the decoding that reads every byte as one character
base64urlDecodeBinary(data) ==
    Bind(data, LAMBDA d :
        LET padding == 4 - (Len(d) % 4)
            paddedData == d \o Repeat(61, padding % 4)
        IN  Base64Decode(ReplaceAll(ReplaceAll(paddedData, 45, <<43>>), 95, <<47>>)))

base64urlDecode(data) ==
    Bind(data, LAMBDA d :
        LET padding == 4 - (Len(d) % 4)
            paddedData == d \o Repeat(61, padding % 4)
        IN  Utf8Decode(Base64Decode(
                ReplaceAll(ReplaceAll(paddedData, 45, <<43>>), 95, <<47>>))))

RECURSIVE WeightedSum(_, _, _)
WeightedSum(bytes, lo, hi) ==
    IF lo > hi THEN 0
    ELSE IF lo = hi THEN ((31 * lo + 7) * (bytes[lo] + 1)) % 65521
    ELSE LET mid == (lo + hi) \div 2
         IN  (WeightedSum(bytes, lo, mid) + WeightedSum(bytes, mid + 1, hi)) % 65521

\* forge.md.sha256 over the bytes of the message: a digest, here a number that the
\* bytes and their order determine
sha256(message) == Bind(message, LAMBDA bytes : WeightedSum(bytes, 1, Len(bytes)))

\* privateKey.sign(md), RSASSA-PKCS1-v1_5: as many bytes as the modulus has, which
\* the key and the digest determine
sign(privateKey, md) ==
    Bind(md, LAMBDA digest :
        [j \in 1..privateKey.bytes |->
            ((digest + privateKey.d) * (j * j + privateKey.d) + 251 * j) % 256])

\* the header createJWT builds from the certificate information
JWTHeaderOf(certificateInfo) ==
    JSONObject(<<Text(<<"a", "l", "g">>),
                 Text(<<"s", "u", "b", "j", "e", "c", "t", "_", "n", "a", "m", "e">>),
                 Text(<<"i", "s", "s", "u", "e", "r", "_", "n", "a", "m", "e">>),
                 Text(<<"s", "e", "r", "i", "a", "l">>)>>,
               <<JSONString(Text(<<"R", "S", "2", "5", "6">>)),
                 JSONString(certificateInfo.subject_name),
                 JSONString(certificateInfo.issuer_name),
                 JSONString(certificateInfo.serial)>>)

\* a token that carries the time of its making
createJWTStamped(payload, privateKey, certificateInfo) ==
    Bind(base64urlEncode(StringInput(JSONstringify(JWTHeaderOf(certificateInfo)))),
         LAMBDA encodedHeader :
    Bind(base64urlEncode(StringInput(JSONstringify(
             JSONObject(<<Text(<<"i", "a", "t">>), Text(<<"d", "a", "t", "a">>)>>,
                        <<JSONNumber(now), payload>>)))),
         LAMBDA encodedPayload :
    Bind(encodedHeader \o <<46>> \o encodedPayload, LAMBDA signingInput :
    Bind(sign(privateKey, sha256(Utf8Encode(signingInput))), LAMBDA signature :
        Ok(signingInput \o <<46>>
           \o ReplaceAll(ReplaceAll(ReplaceAll(Base64Encode(signature), 43, <<45>>),
                                    47, <<95>>), 61, <<>>))))))

createJWT(payload, privateKey, certificateInfo) ==
    Bind(JWTHeaderOf(certificateInfo), LAMBDA header :
    Bind(base64urlEncode(StringInput(JSONstringify(header))), LAMBDA encodedHeader :
    Bind(base64urlEncode(StringInput(JSONstringify(payload))), LAMBDA encodedPayload :
    Bind(encodedHeader \o <<46>> \o encodedPayload, LAMBDA signingInput :
    Bind(sign(privateKey, sha256(Utf8Encode(signingInput))), LAMBDA signature :
    Bind([i \in 1..Len(signature) |-> signature[i] % 256], LAMBDA signatureBytes :
    Bind(ReplaceAll(ReplaceAll(ReplaceAll(Base64Encode(signatureBytes), 43, <<45>>),
                               47, <<95>>), 61, <<>>),
         LAMBDA encodedSignature :
        Ok(signingInput \o <<46>> \o encodedSignature))))))))

\* what decodeJWT returns
JWTDecodedOf(header, payload, signature, valid, error) ==
    [header |-> header, payload |-> payload, signature |-> signature, valid |-> valid,
     error |-> error]

\* the try block of decodeJWT
decodeJWTTry(jwt) ==
    Bind(Split(jwt, 46), LAMBDA parts :
        IF Len(parts) # 3 THEN Throw("Invalid JWT format - should have 3 parts")
        ELSE Bind(JSONparse(base64urlDecode(parts[1])), LAMBDA header :
            IF header.threw THEN header
            ELSE Bind(JSONparse(base64urlDecode(parts[2])), LAMBDA payload :
                IF payload.threw THEN payload
                ELSE Ok(JWTDecodedOf(header.value, payload.value, parts[3], TRUE, "")))))

\* the decoding that lets the error of its try block through
decodeJWTUncaught(jwt) == decodeJWTTry(jwt)

\* the decoding that takes a token without a signature for no token
decodeJWTSigned(jwt) ==
    Bind(decodeJWTTry(jwt), LAMBDA r :
        IF r.threw \/ r.value.signature = <<>>
        THEN Ok(JWTDecodedOf(JSONObject(<<>>, <<>>), JSONObject(<<>>, <<>>), <<>>, FALSE,
                             IF r.threw THEN r.error ELSE "Invalid JWT signature"))
        ELSE r)

\* the try block, and the catch block that turns what was thrown into a result
decodeJWT(jwt) ==
    Bind(decodeJWTTry(jwt), LAMBDA r :
        IF r.threw
        THEN Ok(JWTDecodedOf(JSONObject(<<>>, <<>>), JSONObject(<<>>, <<>>), <<>>, FALSE,
                             r.error))
        ELSE r)

\* no decoded token
NoDecoded == JWTDecodedOf(JSONObject(<<>>, <<>>), JSONObject(<<>>, <<>>), <<>>, FALSE, "")

----------------------------------------------------------------------------
(* The arguments the calls are made with.                                  *)

ZoiRef1 == <<"a", "7", "e", "5", "f", "5", "5", "e", "1", "d", "b", "b", "4", "8", "b", "7",
             "9", "9", "2", "6", "8", "e", "1", "a", "6", "d", "8", "6", "1", "8", "a", "3">>
ZoiRef2 == <<"3", "0", "2", "4", "e", "5", "6", "b", "f", "1", "d", "d", "d", "2", "e", "7",
             "e", "e", "b", "5", "7", "1", "5", "c", "6", "8", "5", "9", "a", "9", "1", "3">>
ZoiZero == Repeat("0", 32)
ZoiMax == Repeat("f", 32)
ZoiUpper == [i \in 1..32 |-> IF ZoiRef1[i] \in Range(HexChars)
                             THEN UpperHexChars[IndexOf(ZoiRef1[i], HexChars)]
                             ELSE ZoiRef1[i]]
\* generated ZOIs of mixed case
ZoiSeed(k) == [i \in 1..32 |->
                  LET v == ((i * i * k + 7 * k + 3 * i) % 16) + 1
                  IN  IF (i + k) % 3 = 0 THEN UpperHexChars[v] ELSE HexChars[v]]

ValidZois == {ZoiRef1, ZoiRef2, ZoiZero, ZoiMax, ZoiUpper}
             \cup {ZoiSeed(k) : k \in 1..MaxZoiSeed}

ZoiShort == SubSeq(ZoiRef1, 1, 8)
ZoiLong == Repeat("f", 33)
ZoiNonHex == <<"i", "n", "v", "a", "l", "i", "d">>
ZoiSpaced == [ZoiRef1 EXCEPT ![17] = " "]
ZoiWithG == [ZoiRef2 EXCEPT ![32] = "g"]
InvalidZois == {ZoiShort, ZoiLong, ZoiNonHex, <<>>, ZoiSpaced, ZoiWithG}

Zois == ValidZois \cup InvalidZois

TaxNumbers == {0, 123, 9999999, 10000000, 12345678, 99999999,
               100000000, 123456789, -1234567}

DateRef == DateOf(2015, 7, 15, 10, 13, 32)
DateStringRef == <<"2", "0", "1", "5", "-", "0", "8", "-", "1", "5", "T",
                   "1", "0", ":", "1", "3", ":", "3", "2">>
DateStringOther == <<"2", "0", "2", "5", "-", "0", "1", "-", "0", "2", "T",
                     "0", "3", ":", "0", "4", ":", "0", "5">>
NotADate == <<"n", "o", "t", "-", "a", "-", "d", "a", "t", "e">>

IssueDates == {DateArg(DateRef),
               DateArg(DateOf(1999, 11, 31, 23, 59, 59)),
               DateArg(DateOf(2000, 0, 1, 0, 0, 0)),
               DateArg(DateOf(2009, 8, 9, 9, 9, 9)),
               DateArg(DateOf(12345, 5, 6, 7, 8, 9)),
               DateArg(DateOf(5, 7, 15, 10, 13, 32)),
               DateArg(InvalidDate),
               StringArg(DateStringRef),
               StringArg(DateStringOther),
               StringArg(NotADate)}

\* generated 60-character strings of digits
DataSeed(k) == [i \in 1..60 |-> DigitChars[((i * k + (i \div 7) + k) % 10) + 1]]

CodeDatas == {DataSeed(k) : k \in 1..MaxDataSeed}
             \cup {formatCodeData(ZoiRef1, 12345678, DateArg(DateRef)).value,
                   formatCodeData(ZoiRef2, 12345678, DateArg(DateRef)).value,
                   SubSeq(DataSeed(1), 1, 59),
                   DataSeed(1) \o <<"7">>,
                   <<>>,
                   [DataSeed(1) EXCEPT ![60] = "x"],
                   Repeat("-", 60)}

PartCounts == -1..MaxParts

\* the arguments generateCode is called with
GeneratorZois == {ZoiRef1, ZoiRef2, ZoiUpper, ZoiShort, ZoiWithG}
GeneratorTaxNumbers == {12345678, 10000000, 123, 123456789}
GeneratorDates == {DateArg(DateRef), DateArg(InvalidDate),
                   StringArg(DateStringOther), StringArg(NotADate)}
GeneratorFormats == {<<f, FALSE>> : f \in CodeFormats} \cup {<<"file", TRUE>>}
GeneratorOptions ==
    {OptionsOf(ty, f[1], f[2], 0) : ty \in {"QR", "PDF417"}, f \in GeneratorFormats}
    \cup {OptionsOf("CODE128", f[1], f[2], n) :
              f \in GeneratorFormats, n \in {0, 1, 2, 4, MaxParts}}
    \cup {OptionsOf("AZTEC", "buffer", FALSE, 0)}

NoDate == DateArg(InvalidDate)
NoOptions == OptionsOf("", "", FALSE, 0)

\* the payloads createJWT is given
PayloadEmpty == JSONObject(<<>>, <<>>)
PayloadSmall == JSONObject(<<Text(<<"a">>)>>, <<JSONNumber(1)>>)
\* a string with a quote, a backslash, a line feed, U+010D and a character outside
\* the basic plane
PayloadText ==
    JSONObject(<<Text(<<"t">>)>>, <<JSONString(<<34, 92, 10, 269, 55357, 56832>>)>>)
PayloadList ==
    JSONArray(<<JSONNumber(-5), JSONArray(<<>>), JSONNull, JSONBoolean(TRUE)>>)
PayloadInvoice ==
    JSONObject(
        <<Text(<<"I", "n", "v", "o", "i", "c", "e", "R", "e", "q", "u", "e", "s", "t">>)>>,
        <<JSONObject(<<Text(<<"T", "a", "x", "N", "u", "m", "b", "e", "r">>),
                       Text(<<"I", "t", "e", "m", "s">>)>>,
                     <<JSONNumber(12345678),
                       JSONArray(<<JSONString(Text(<<"A", "-", "1">>)),
                                   JSONBoolean(FALSE)>>)>>)>>)
\* a string with a high surrogate that no low surrogate follows
PayloadLone == JSONObject(<<Text(<<"k">>)>>, <<JSONString(<<55357, 65>>)>>)
Payloads ==
    {PayloadEmpty, PayloadSmall, PayloadText, PayloadLone, PayloadList, PayloadInvoice}

\* the keys: the number of bytes of the modulus, and the private exponent
PrivateKeyOf(k) == [bytes |-> 4 + (k % 3), d |-> 7 * k + 1]
PrivateKeys == {PrivateKeyOf(k) : k \in 1..MaxKeys}

CertificateInfoOf(subject, issuer, serial) ==
    [subject_name |-> subject, issuer_name |-> issuer, serial |-> serial,
     validFrom |-> 0, validTo |-> 1]
\* CN=A\,B <U+010D>,C=SI
CertificateInfoRef ==
    CertificateInfoOf(
        Text(<<"C", "N", "=", "A", "\\", ",", "B", " ">>) \o <<269>>
            \o Text(<<",", "C", "=", "S", "I">>),
        Text(<<"C", "N", "=", "T", "a", "x", " ", "C", "A", ",", "C", "=", "S", "I">>),
        Text(<<"1", "2", "3", "4", "5", "6", "7", "8", "9", "0", "1", "2">>))
CertificateInfoBlank == CertificateInfoOf(<<>>, <<>>, <<>>)
CertificateInfos == {CertificateInfoRef, CertificateInfoBlank}

\* the base64url segment of a text
SegmentOf(s) == base64urlEncode(StringInput(Text(s)))
Dot == <<46>>

TokenRef == createJWT(PayloadSmall, PrivateKeyOf(1), CertificateInfoRef).value
TokenText == createJWT(PayloadText, PrivateKeyOf(2), CertificateInfoBlank).value
TokenRefParts == Split(TokenRef, 46)

\* tokens of three segments whose header and payload are JSON
WellFormedTokens ==
    {TokenRef, TokenText,
     \* a header that is no object, and no signature
     SegmentOf(<<"1">>) \o Dot \o SegmentOf(<<"\"", "s", "\"">>) \o Dot,
     \* white space, a fraction and an exponent
     SegmentOf(<<" ", "{", "\"", "a", "\"", " ", ":", "[", "1", ",", "2", ".", "5", "e",
                 "3", ",", "t", "r", "u", "e", "]", "}", " ">>)
        \o Dot \o SegmentOf(<<"{", "}">>) \o Dot \o Text(<<"A", "A">>),
     \* padding and characters outside the alphabet inside the header segment
     Text(<<"e", "*", "3", "0", "=">>) \o Dot \o Text(<<"e", "3", "0", "=", "=", "x">>)
        \o Dot \o Text(<<"s", "i", "g">>)}

\* strings that do not split into three segments
MalformedTokens ==
    {<<>>,
     Text(<<"a", "b", "c">>),
     TokenRefParts[1] \o Dot \o TokenRefParts[2],
     TokenRef \o Dot \o Text(<<"x">>),
     Dot,
     Dot \o Dot \o Dot}

\* three segments, the header or the payload of which is no JSON
UnparsableTokens ==
    {Dot \o Dot,
     Text(<<"a", ".", "b", ".", "c">>),
     SegmentOf(<<"{", "\"", "a", "\"", ":">>) \o Dot \o TokenRefParts[2] \o Dot
        \o TokenRefParts[3],
     TokenRefParts[1] \o Dot \o SegmentOf(<<"n", "o", "p", "e">>) \o Dot
        \o TokenRefParts[3],
     TokenRefParts[1] \o Dot \o SegmentOf(<<"{", "\"", "a", "\"", ":", "1", "}", "x">>)
        \o Dot \o TokenRefParts[3],
     TokenRefParts[1] \o Dot \o SegmentOf(<<"{", "\"", "a", "\"", ":", "0", "1", "}">>)
        \o Dot \o TokenRefParts[3],
     TokenRefParts[1] \o Dot \o SegmentOf(<<"{", "'", "a", "'", ":", "1", "}">>)
        \o Dot \o TokenRefParts[3],
     TokenRefParts[1] \o Dot \o SegmentOf(<<"\"", "\\", "x", "\"">>)
        \o Dot \o TokenRefParts[3],
     \* the payload segment cut short by a character
     TokenRefParts[1] \o Dot \o SubSeq(TokenRefParts[2], 1, Len(TokenRefParts[2]) - 1)
        \o Dot \o TokenRefParts[3],
     \* a header of one byte that is no UTF-8
     Text(<<"_", "w">>) \o Dot \o TokenRefParts[2] \o Dot \o TokenRefParts[3],
     \* no payload
     TokenRefParts[1] \o Dot \o Dot \o TokenRefParts[3]}

Tokens == WellFormedTokens \cup MalformedTokens \cup UnparsableTokens

\* the strings that are encoded: the code units of '>', '?' and 'A', of a character
\* of two and of one of three UTF-8 bytes, and the two halves of a surrogate pair
TextUnits == {62, 63, 65, 233, 8364, 55357, 56832}
TextStrings == UNION {[1..n -> TextUnits] : n \in 0..MaxTextLen}
TextBuffers == {<<>>, <<251>>, <<255, 239>>, <<251, 255, 190>>, <<0, 16, 131, 16>>}
EncoderInputs == {StringInput(s) : s \in TextStrings}
                 \cup {BufferInput(b) : b \in TextBuffers}
\* what is decoded: what the encoder gives, and data with padding, with a character
\* of neither alphabet and of a length no encoding has
DecoderDatas == {base64urlEncode(input) : input \in EncoderInputs}
                \cup {Text(<<"Q", "Q", "=", "=">>), Text(<<"Q", "*", "U", "J">>),
                      Text(<<"Q">>), Text(<<"P", "j", "4", "+">>)}

----------------------------------------------------------------------------
(* utils/certificate: the PKCS#12 bundle and the identity strings of its   *)
(* certificate. An attribute of a distinguished name has the type (OID),   *)
(* the short name forge gives that type, and the value.                    *)

ShortNameOf(type) ==
    CASE type = "2.5.4.3" -> "CN"
      [] type = "2.5.4.6" -> "C"
      [] type = "2.5.4.7" -> "L"
      [] type = "2.5.4.10" -> "O"
      [] type = "2.5.4.11" -> "OU"
      [] OTHER -> ""

Attr(type, value) == [shortName |-> ShortNameOf(type), type |-> type, value |-> value]

\* Array.prototype.filter and Array.prototype.find; find gives <<>> for undefined
Filter(attrs, Test(_)) == SelectSeq(attrs, Test)
Find(attrs, Test(_)) ==
    IF \E i \in 1..Len(attrs) : Test(attrs[i])
    THEN <<attrs[CHOOSE i \in 1..Len(attrs) :
                    Test(attrs[i]) /\ \A k \in 1..(i - 1) : ~Test(attrs[k])]>>
    ELSE <<>>

\* String.prototype.includes(',')
IncludesComma(value) == \E i \in 1..Len(value) : value[i] = 44

\* /^\d+$/.test(value)
IsNumeric(value) == value # <<>> /\ \A i \in 1..Len(value) : value[i] \in 48..57

DavPotRacTEST == Text(<<"D", "a", "v", "P", "o", "t", "R", "a", "c", "T", "E", "S", "T">>)

\* Array.prototype.join(',')
JoinParts(parts) ==
    Flatten([i \in 1..Len(parts) |-> IF i = 1 THEN parts[i] ELSE <<44>> \o parts[i]])

\* the issuer name of getCertificateInfo
IssuerNameOf(issuerAttrs) ==
    LET issuerCn == Find(issuerAttrs,
                         LAMBDA attr : attr.shortName = "CN" \/ attr.type = "2.5.4.3")
        issuerO == Find(issuerAttrs,
                        LAMBDA attr : attr.shortName = "O" \/ attr.type = "2.5.4.10")
        issuerC == Find(issuerAttrs,
                        LAMBDA attr : attr.shortName = "C" \/ attr.type = "2.5.4.6")
        issuerParts ==
            (IF issuerCn # <<>>
             THEN <<Text(<<"C", "N", "=">>) \o issuerCn[1].value>> ELSE <<>>)
            \o (IF issuerO # <<>> THEN <<Text(<<"O", "=">>) \o issuerO[1].value>> ELSE <<>>)
            \o (IF issuerC # <<>> THEN <<Text(<<"C", "=">>) \o issuerC[1].value>> ELSE <<>>)
    IN  JoinParts(issuerParts)

\* a subject name made the way the issuer name is
SubjectNameAsIssuer(subjectAttrs) == IssuerNameOf(subjectAttrs)

\* the subject name of getCertificateInfo
SubjectNameOf(subjectAttrs) ==
    LET cn == Find(subjectAttrs, LAMBDA attr : attr.shortName = "CN" \/ attr.type = "2.5.4.3")
        serialAttr == Find(subjectAttrs, LAMBDA attr : attr.type = "2.5.4.5")
        ouAttrs == Filter(subjectAttrs,
                          LAMBDA attr : attr.shortName = "OU" \/ attr.type = "2.5.4.11")
        davPotRac == Find(ouAttrs, LAMBDA ou : ou.value = DavPotRacTEST)
        taxNumber == Find(ouAttrs, LAMBDA ou : IsNumeric(ou.value))
        o == Find(subjectAttrs, LAMBDA attr : attr.shortName = "O" \/ attr.type = "2.5.4.10")
        c == Find(subjectAttrs, LAMBDA attr : attr.shortName = "C" \/ attr.type = "2.5.4.6")
        subjectParts ==
            (IF cn # <<>>
             THEN IF IncludesComma(cn[1].value)
                  THEN <<Text(<<"C", "N", "=">>) \o ReplaceAll(cn[1].value, 44, <<92, 44>>)>>
                  ELSE <<Text(<<"C", "N", "=">>) \o cn[1].value>>
             ELSE <<>>)
            \o (IF serialAttr # <<>>
                THEN <<Text(<<"2", ".", "5", ".", "4", ".", "5", "=", "#", "1">>)>>
                ELSE <<>>)
            \o (IF davPotRac # <<>>
                THEN <<Text(<<"O", "U", "=">>) \o davPotRac[1].value>> ELSE <<>>)
            \o (IF taxNumber # <<>>
                THEN <<Text(<<"O", "U", "=">>) \o taxNumber[1].value>> ELSE <<>>)
            \o (IF o # <<>> THEN <<Text(<<"O", "=">>) \o o[1].value>> ELSE <<>>)
            \o (IF c # <<>> THEN <<Text(<<"C", "=">>) \o c[1].value>> ELSE <<>>)
    IN  JoinParts(subjectParts)

\* a certificate; a bag whose certificate forge could not read has none
CertificateOf(subject, issuer, serialNumber) ==
    [present |-> TRUE, subject |-> subject, issuer |-> issuer,
     serialNumber |-> serialNumber]
NoCertificate == [present |-> FALSE, subject |-> <<>>, issuer |-> <<>>,
                  serialNumber |-> <<>>]

\* getCertificateInfo(certBags): the first bag's certificate is the one described
getCertificateInfo(certBags) ==
    Bind(certBags[1], LAMBDA cert :
        IF ~cert.present
        THEN Throw("TypeError: Cannot read properties of undefined (reading 'subject')")
        ELSE IF ~IsBigIntHex(cert.serialNumber)
        THEN Throw("SyntaxError: Cannot convert to a BigInt")
        ELSE Ok(CertificateInfoOf(
                    SubjectNameOf(cert.subject),
                    IssuerNameOf(cert.issuer),
                    Text(BigToDecimalString(
                        BigFromDigits([i \in 1..Len(cert.serialNumber) |->
                                          HexVal(cert.serialNumber[i])], 16, 10))))))

\* a PKCS#12 file: whether it is DER at all, the password it opens with, its
\* certificate bags and its shrouded key bags (a bag may hold no key)
BundleOf(password, certBag, keyBag) ==
    [der |-> TRUE, password |-> password, certBag |-> certBag, keyBag |-> keyBag]
NotDer == [der |-> FALSE, password |-> "", certBag |-> <<>>, keyBag |-> <<>>]
KeyBagOf(k) == [hasKey |-> TRUE, key |-> PrivateKeyOf(k)]
EmptyKeyBag == [hasKey |-> FALSE, key |-> PrivateKeyOf(0)]

\* the try block of loadCertificate
loadCertificateTry(certData, password) ==
    IF ~certData.der THEN Throw("Too few bytes to parse DER.")
    ELSE IF certData.password # password
    THEN Throw("PKCS#12 MAC could not be verified. Invalid password?")
    ELSE IF Len(certData.certBag) = 0 THEN Throw("No certificate found in P12 file")
    ELSE IF Len(certData.keyBag) = 0 THEN Throw("No private key found in P12 file")
    ELSE IF ~certData.keyBag[1].hasKey
    THEN Throw("No private key found in certificate bag")
    ELSE Bind(getCertificateInfo(certData.certBag), LAMBDA certificateInfo :
        IF certificateInfo.threw THEN certificateInfo
        ELSE Ok([privateKey |-> certData.keyBag[1].key,
                 certificateInfo |-> certificateInfo.value,
                 certificateCount |-> Len(certData.certBag)]))

\* a loading that opens the bundle whatever the password
loadCertificateAnyPassword(certData, password) ==
    loadCertificateTry(certData, certData.password)

\* loadCertificate: what the try block throws is thrown again as an Error
loadCertificate(certData, password) ==
    Bind(loadCertificateTry(certData, password), LAMBDA r :
        IF r.threw THEN [r EXCEPT !.error = "Failed to load certificate"] ELSE r)

----------------------------------------------------------------------------
(* The certificates, the files and the configurations.                     *)

\* the certificates: attribute values, and the subjects and issuers made of them
CommonName == Text(<<"T", "E", "S", "T", " ", "1", "0">>)
CommonNameWithCommas == Text(<<"A", ",", "B", ",", " ", "d", ".", "o", ".", "o", ".">>)
HolderTaxNumber == Text(<<"1", "0", "4", "4", "2", "5", "2", "9">>)
OrganizationName == Text(<<"s", "t", "a", "t", "e">>)
OrganizationWithComma == Text(<<"A", "c", "m", "e", ",", " ", "I", "n", "c">>)
CountryName == Text(<<"S", "I">>)
HolderSerial == Text(<<"7", "7">>)

\* the subject of a test certificate, in the order the certificate has it
SubjectRef ==
    <<Attr("2.5.4.6", CountryName), Attr("2.5.4.10", OrganizationName),
      Attr("2.5.4.11", DavPotRacTEST), Attr("2.5.4.11", HolderTaxNumber),
      Attr("2.5.4.5", HolderSerial), Attr("2.5.4.3", CommonName)>>
\* the same attributes, the other way round
SubjectReversed == [i \in 1..Len(SubjectRef) |-> SubjectRef[Len(SubjectRef) + 1 - i]]
\* commas in the common name and in the organization
SubjectWithCommas ==
    <<Attr("2.5.4.3", CommonNameWithCommas), Attr("2.5.4.10", OrganizationWithComma),
      Attr("2.5.4.6", CountryName)>>
\* an organizational unit that is neither the marker nor a number, and a locality
SubjectSparse ==
    <<Attr("2.5.4.11", Text(<<"S", "a", "l", "e", "s">>)),
      Attr("2.5.4.7", Text(<<"L", "j">>)), Attr("2.5.4.11", HolderTaxNumber)>>
\* two common names
SubjectTwoNames ==
    <<Attr("2.5.4.3", CommonName), Attr("2.5.4.3", CommonNameWithCommas),
      Attr("2.5.4.6", CountryName)>>
Subjects == {SubjectRef, SubjectReversed, SubjectWithCommas, SubjectSparse,
             SubjectTwoNames, <<>>}

IssuerRef ==
    <<Attr("2.5.4.6", CountryName), Attr("2.5.4.10", OrganizationName),
      Attr("2.5.4.3", Text(<<"T", "a", "x", " ", "C", "A">>))>>
IssuerWithCommas ==
    <<Attr("2.5.4.3", CommonNameWithCommas), Attr("2.5.4.10", OrganizationWithComma),
      Attr("2.5.4.11", Text(<<"C", "A">>))>>
Issuers == {IssuerRef, IssuerWithCommas}

SerialNumbers == {<<"0", "1">>, <<"3", "b", "4", "5", "e", "6", "2", "1", "f", "f">>}

Certificates ==
    {CertificateOf(subject, issuer, serialNumber) :
         subject \in Subjects, issuer \in Issuers, serialNumber \in SerialNumbers}

\* the files a certificate is loaded from, and the passwords tried on them
Password == "secret"
Passwords == {Password, "wrong"}
Bundles ==
    {BundleOf(Password, <<cert>>, <<KeyBagOf(1)>>) : cert \in Certificates}
    \cup {BundleOf(Password, <<CertificateOf(SubjectRef, IssuerRef, <<"0", "1">>),
                               CertificateOf(<<>>, IssuerRef, <<"0", "2">>)>>,
                   [k \in 1..MaxKeys |-> KeyBagOf(k)]),
          BundleOf(Password, <<>>, <<KeyBagOf(1)>>),
          BundleOf(Password, <<CertificateOf(SubjectRef, IssuerRef, <<"0", "1">>)>>, <<>>),
          BundleOf(Password, <<CertificateOf(SubjectRef, IssuerRef, <<"0", "1">>)>>,
                   <<EmptyKeyBag>>),
          BundleOf(Password, <<NoCertificate>>, <<KeyBagOf(1)>>),
          BundleOf(Password, <<>>, <<>>),
          NotDer}

----------------------------------------------------------------------------
(* errors: the error classes. What is thrown carries the name of its class *)
(* and its code ("" for null).                                             *)

Thrown(name, code, message) ==
    [threw |-> TRUE, error |-> message, value |-> <<>>, name |-> name, code |-> code]
FursError(message, code) == Thrown("FursError", code, message)
FursValidationError(message) == Thrown("FursValidationError", "VALIDATION_ERROR", message)
FursAuthenticationError(message) ==
    Thrown("FursAuthenticationError", "AUTHENTICATION_ERROR", message)
FursNetworkError(message) == Thrown("FursNetworkError", "NETWORK_ERROR", message)

----------------------------------------------------------------------------
(* The file system the client is constructed on: the files fs.existsSync   *)
(* finds, what fs.readFileSync reads from them, and the directories of CA  *)
(* certificates.                                                           *)

BundleRef ==
    BundleOf(Password, <<CertificateOf(SubjectRef, IssuerRef, <<"0", "1">>)>>,
             <<KeyBagOf(1)>>)
BundleWithCommas ==
    BundleOf(Password,
             <<CertificateOf(SubjectWithCommas, IssuerWithCommas, <<"f", "f">>)>>,
             <<KeyBagOf(2)>>)

CaFile(name, ext, kind) == [name |-> name, ext |-> ext, kind |-> kind]
Directories ==
    [path \in {"certs-test", "ca-one", "ca-none", "ca-broken"} |->
        CASE path = "certs-test" ->
                <<CaFile("README", ".md", "text"), CaFile("sigov-ca", ".cer", "der"),
                  CaFile("tax-ca", ".pem", "pem")>>
          [] path = "ca-one" -> <<CaFile("root", ".crt", "pem")>>
          [] path = "ca-none" -> <<CaFile("README", ".md", "text")>>
          [] path = "ca-broken" ->
                <<CaFile("root", ".crt", "pem"), CaFile("notes", ".pem", "text")>>]
Files ==
    [path \in {"test.p12", "commas.p12", "nokey.p12", "nocert.p12", "text.p12"} |->
        CASE path = "test.p12" -> BundleRef
          [] path = "commas.p12" -> BundleWithCommas
          [] path = "nokey.p12" ->
                BundleOf(Password, <<CertificateOf(SubjectRef, IssuerRef, <<"0", "1">>)>>,
                         <<>>)
          [] path = "nocert.p12" -> BundleOf(Password, <<>>, <<KeyBagOf(1)>>)
          [] path = "text.p12" -> NotDer]

\* a file system in which every path exists
existsAlways(path) == TRUE

\* fs.existsSync(path)
existsSync(path) == path \in DOMAIN Files \/ path \in DOMAIN Directories

\* fs.readFileSync(path)
readFileSync(path) ==
    IF path \in DOMAIN Files THEN Ok(Files[path])
    ELSE IF path \in DOMAIN Directories
    THEN Throw("EISDIR: illegal operation on a directory, read")
    ELSE Throw("ENOENT: no such file or directory")

\* the PEM text of a certificate file, named after the file
PemOf(file) == file.name

\* utils/certificate: loadCACertificates(caCertsPath)
loadCACertificates(caCertsPath) ==
    IF caCertsPath \notin DOMAIN Directories
    THEN Throw("CA certificates directory not found")
    ELSE LET files == Directories[caCertsPath]
             certFiles == SelectSeq(files, LAMBDA file :
                              file.ext = ".cer" \/ file.ext = ".crt" \/ file.ext = ".pem")
         IN  IF Len(certFiles) = 0 THEN Throw("No certificate files found")
             ELSE IF \E i \in 1..Len(certFiles) : certFiles[i].kind \notin {"pem", "der"}
             THEN Throw("Failed to load CA certificate")
             ELSE Ok([i \in 1..Len(certFiles) |-> PemOf(certFiles[i])])

----------------------------------------------------------------------------
(* FursClient: the constructor. A configuration field that is absent is "" *)
(* (a string), the tax number of type "undefined", "default" (strictTLS).  *)

TaxNumberOf(type, n) == [type |-> type, n |-> n]
NoEndpoints == [businessPremise |-> "", invoice |-> ""]
ConfigOf(certPath, certPassword, taxNumber, environment, strictTLS, caCertsPath) ==
    [given |-> TRUE, certPath |-> certPath, certPassword |-> certPassword,
     taxNumber |-> taxNumber, environment |-> environment, strictTLS |-> strictTLS,
     caCertsPath |-> caCertsPath, debug |-> FALSE, endpoints |-> NoEndpoints]
NoConfig ==
    [given |-> FALSE, certPath |-> "", certPassword |-> "",
     taxNumber |-> TaxNumberOf("undefined", 0), environment |-> "",
     strictTLS |-> "default", caCertsPath |-> "", debug |-> FALSE,
     endpoints |-> NoEndpoints]

\* utils/crypto: validateTaxNumber(taxNumber), which also looks at the type
validateTaxNumberOfCrypto(taxNumber) ==
    IF taxNumber.type # "number" THEN FALSE
    ELSE LET taxStr == IntToString(taxNumber.n)
         IN  Len(taxStr) = 8 /\ AllDigits(taxStr)

\* !config[field]
FieldMissing(config, field) ==
    CASE field = "certPath" -> config.certPath = ""
      [] field = "certPassword" -> config.certPassword = ""
      [] field = "taxNumber" ->
            \/ config.taxNumber.type = "undefined"
            \/ (config.taxNumber.type = "number" /\ config.taxNumber.n = 0)

validateConfig(config) ==
    IF ~config.given THEN FursValidationError("Configuration is required")
    ELSE LET required == <<"certPath", "certPassword", "taxNumber">>
             missing == SelectSeq(required, LAMBDA field : FieldMissing(config, field))
         IN  IF missing # <<>>
             THEN FursValidationError("Configuration field '" \o missing[1]
                                      \o "' is required")
             ELSE IF ~existsSync(config.certPath)
             THEN FursValidationError("Certificate file not found")
             ELSE IF ~validateTaxNumberOfCrypto(config.taxNumber)
             THEN FursValidationError("Invalid tax number format. Must be 8 digits.")
             ELSE Ok(<<>>)

\* the object the constructor fills in: the configuration it keeps and the private
\* fields, caCerts being [] from the start
NewClient(config) ==
    LET environment == IF config.environment = "" THEN "test" ELSE config.environment
        caCertsPath == IF config.caCertsPath = ""
                       THEN "certs-" \o environment ELSE config.caCertsPath
    IN  [constructed |-> TRUE,
         config |-> [certPath |-> config.certPath,
                     certPassword |-> config.certPassword,
                     taxNumber |-> config.taxNumber.n,
                     environment |-> environment,
                     debug |-> config.debug,
                     strictTLS |-> config.strictTLS # "false",
                     caCertsPath |-> caCertsPath,
                     endpoints |->
                        [businessPremise |->
                            IF config.endpoints.businessPremise = ""
                            THEN "/v1/cash_registers/invoices/register"
                            ELSE config.endpoints.businessPremise,
                         invoice |->
                            IF config.endpoints.invoice = ""
                            THEN "/v1/cash_registers/invoices"
                            ELSE config.endpoints.invoice],
                     baseUrl |-> "",
                     port |-> 0],
         privateKey |-> PrivateKeyOf(0),
         certificateInfo |-> CertificateInfoBlank,
         certData |-> NotDer,
         caCerts |-> <<>>]
NoClient == [constructed |-> FALSE]

setEnvironment(this) ==
    IF this.config.environment = "test"
    THEN Ok([this EXCEPT !.config.baseUrl = "blagajne-test.fu.gov.si",
                         !.config.port = 9002])
    ELSE IF this.config.environment = "production"
    THEN Ok([this EXCEPT !.config.baseUrl = "blagajne.fu.gov.si", !.config.port = 9003])
    ELSE FursValidationError("Invalid environment. Use 'test' or 'production'")

\* FursClient.loadCertificateData
loadCertificateData(this) ==
    Bind(readFileSync(this.config.certPath), LAMBDA certData :
        IF certData.threw
        THEN FursAuthenticationError("Failed to load certificate: " \o certData.error)
        ELSE Bind(loadCertificate(certData.value, this.config.certPassword), LAMBDA loaded :
            IF loaded.threw
            THEN FursAuthenticationError("Failed to load certificate: " \o loaded.error)
            ELSE Ok([this EXCEPT !.privateKey = loaded.value.privateKey,
                                 !.certificateInfo = loaded.value.certificateInfo,
                                 !.certData = certData.value])))

\* a client that loads no CA certificates
loadCACertificatesSkipped(this) == Ok(this)

\* FursClient.loadCACertificates
loadCACertificatesOfClient(this) ==
    IF ~this.config.strictTLS THEN Ok(this)
    ELSE Bind(loadCACertificates(this.config.caCertsPath), LAMBDA loaded :
        IF loaded.threw
        THEN FursAuthenticationError("Failed to load CA certificates for TLS validation: "
                                     \o loaded.error)
        ELSE Ok([this EXCEPT !.caCerts = loaded.value]))

\* what the constructor gives: the client or what it threw, and the files it read
\* on the way
Constructed(r, reads) ==
    [threw |-> r.threw, error |-> r.error,
     name |-> IF r.threw THEN r.name ELSE "", code |-> IF r.threw THEN r.code ELSE "",
     this |-> IF r.threw THEN NoClient ELSE r.value, reads |-> reads]

\* new FursClient(config)
FursClientConstructor(config) ==
    Bind(validateConfig(config), LAMBDA valid :
        IF valid.threw THEN Constructed(valid, <<>>)
        ELSE Bind(setEnvironment(NewClient(config)), LAMBDA withEnvironment :
            IF withEnvironment.threw THEN Constructed(withEnvironment, <<>>)
            ELSE Bind(loadCertificateData(withEnvironment.value), LAMBDA withCertificate :
                IF withCertificate.threw
                THEN Constructed(withCertificate, <<config.certPath>>)
                ELSE Constructed(loadCACertificatesOfClient(withCertificate.value),
                                 <<config.certPath>>))))

\* the configurations a client is constructed with
TaxNumberRef == TaxNumberOf("number", 12345678)
ConfigRef == ConfigOf("test.p12", Password, TaxNumberRef, "", "default", "")
Configs ==
    {ConfigRef,
     [ConfigOf("test.p12", Password, TaxNumberRef, "production", "true", "ca-one")
        EXCEPT !.endpoints.invoice = "/v2/invoices"],
     ConfigOf("commas.p12", Password, TaxNumberOf("number", 10442529), "test", "false",
              "ca-none"),
     \* no configuration, and fields that are missing
     NoConfig,
     ConfigOf("", Password, TaxNumberRef, "", "default", ""),
     ConfigOf("test.p12", "", TaxNumberRef, "", "default", ""),
     ConfigOf("test.p12", Password, TaxNumberOf("undefined", 0), "", "default", ""),
     ConfigOf("test.p12", Password, TaxNumberOf("number", 0), "", "default", ""),
     ConfigOf("", "", TaxNumberOf("undefined", 0), "", "default", ""),
     ConfigOf("missing.p12", "", TaxNumberOf("number", 123), "", "default", ""),
     ConfigOf("nokey.p12", Password, TaxNumberOf("undefined", 0), "staging", "default", ""),
     \* a file that is not there, a tax number that is none
     ConfigOf("missing.p12", Password, TaxNumberRef, "", "default", ""),
     ConfigOf("missing.p12", Password, TaxNumberOf("number", 123), "", "default", ""),
     ConfigOf("test.p12", Password, TaxNumberOf("number", 123), "", "default", ""),
     ConfigOf("test.p12", Password, TaxNumberOf("number", 123456789), "", "default", ""),
     ConfigOf("test.p12", Password, TaxNumberOf("number", -1234567), "", "default", ""),
     ConfigOf("test.p12", Password, TaxNumberOf("string", 12345678), "", "default", ""),
     ConfigOf("nocert.p12", Password, TaxNumberOf("number", 123), "staging", "false", ""),
     \* an environment that is none
     ConfigOf("test.p12", Password, TaxNumberRef, "staging", "default", ""),
     ConfigOf("nokey.p12", Password, TaxNumberRef, "staging", "default", "ca-none"),
     \* bundles that do not load
     ConfigOf("test.p12", "wrong", TaxNumberRef, "", "default", ""),
     ConfigOf("nokey.p12", Password, TaxNumberRef, "", "default", ""),
     ConfigOf("nocert.p12", Password, TaxNumberRef, "", "false", ""),
     ConfigOf("text.p12", Password, TaxNumberRef, "", "default", ""),
     ConfigOf("certs-test", Password, TaxNumberRef, "", "default", ""),
     ConfigOf("nokey.p12", Password, TaxNumberRef, "", "default", "ca-none"),
     \* CA certificates that do not load
     ConfigOf("test.p12", Password, TaxNumberRef, "production", "default", ""),
     ConfigOf("test.p12", Password, TaxNumberRef, "", "true", "ca-none"),
     ConfigOf("test.p12", Password, TaxNumberRef, "", "default", "ca-broken"),
     ConfigOf("test.p12", Password, TaxNumberRef, "", "true", "missing")}

----------------------------------------------------------------------------
(* utils/crypto: identifiers, the dates of the FURS messages and the ZOI.  *)
(* The clock ticks in seconds; Date.now() is ClockStart seconds after a    *)
(* multiple of 36^4 milliseconds, plus the ticks.                          *)

\* the seconds of the clock at the start, and the time zones of the process: local
\* time is UTC plus so many hours
ClockStart == 1234
TimeZones == {1}

Base36Chars == <<"0", "1", "2", "3", "4", "5", "6", "7", "8", "9", "A", "B", "C", "D",
                 "E", "F", "G", "H", "I", "J", "K", "L", "M", "N", "O", "P", "Q", "R",
                 "S", "T", "U", "V", "W", "X", "Y", "Z">>

\* Date.now().toString(36).toUpperCase().substr(-4): the last four digits in base 36
TimestampOf(clock) ==
    LET ms == ((ClockStart + clock) * 1000) % 1679616
    IN  <<Base36Chars[(ms \div 46656) + 1], Base36Chars[((ms \div 1296) % 36) + 1],
          Base36Chars[((ms \div 36) % 36) + 1], Base36Chars[(ms % 36) + 1]>>

\* generateId(prefix), random being Math.random().toString(36).substr(2, 4).toUpperCase()
generateId(prefix, clock, random) == prefix \o TimestampOf(clock) \o random

IsLeapYear(y) == (y % 4 = 0 /\ y % 100 # 0) \/ y % 400 = 0
\* the days of a month, the month counted from 0
DaysInMonth(y, mo) ==
    IF mo = 1 THEN (IF IsLeapYear(y) THEN 29 ELSE 28)
    ELSE IF mo \in {3, 5, 8, 10} THEN 30 ELSE 31

\* the calendar fields a number of hours (less than a day) later or earlier
AddHours(d, h) ==
    IF ~d.valid THEN d
    ELSE LET hours == d.hours + h
         IN  IF hours \in 0..23 THEN [d EXCEPT !.hours = hours]
             ELSE IF hours > 23
             THEN IF d.date < DaysInMonth(d.year, d.month)
                  THEN [d EXCEPT !.hours = hours - 24, !.date = d.date + 1]
                  ELSE IF d.month < 11
                  THEN [d EXCEPT !.hours = hours - 24, !.date = 1, !.month = d.month + 1]
                  ELSE [d EXCEPT !.hours = hours - 24, !.date = 1, !.month = 0,
                                 !.year = d.year + 1]
             ELSE IF d.date > 1
             THEN [d EXCEPT !.hours = hours + 24, !.date = d.date - 1]
             ELSE IF d.month > 0
             THEN [d EXCEPT !.hours = hours + 24, !.month = d.month - 1,
                            !.date = DaysInMonth(d.year, d.month - 1)]
             ELSE [d EXCEPT !.hours = hours + 24, !.month = 11, !.date = 31,
                            !.year = d.year - 1]

\* new Date(): the local calendar fields of the clock
DateOfClock(clock, tz) == AddHours(DateOf(2025, 2, 14, 9, 26, clock % 60), tz)

\* new Date(string) of the form YYYY-MM-DDTHH:mm:ss.sssZ, which is read as UTC, and
\* of the forms NewDate reads
NewDateOfISO(s, tz) ==
    IF Len(s) = 24 /\ s[20] = "." /\ s[24] = "Z" /\ AllDigits(SubSeq(s, 21, 23))
    THEN AddHours(NewDate(SubSeq(s, 1, 19)), tz)
    ELSE NewDate(s)

\* Date.prototype.toISOString(), of a date of the years 1000 to 9999; the
\* milliseconds are always 0 here
toISOString(d, tz) ==
    LET utc == AddHours(d, -tz)
        two(n) == PadStart(NatToString(n), 2, "0")
    IN  IF ~d.valid THEN Throw("RangeError: Invalid time value")
        ELSE Ok(PadStart(NatToString(utc.year), 4, "0") \o <<"-">> \o two(utc.month + 1)
                \o <<"-">> \o two(utc.date) \o <<"T">> \o two(utc.hours) \o <<":">>
                \o two(utc.minutes) \o <<":">> \o two(utc.seconds)
                \o <<".", "0", "0", "0", "Z">>)

\* formatDateForFurs(date)
formatDateForFurs(date, tz) ==
    Bind(toISOString(date, tz), LAMBDA iso :
        IF iso.threw THEN iso ELSE Ok(Slice(iso.value, 0, 19) \o <<"Z">>))

\* Number.prototype.toFixed(2) of an integer
ToFixed2(n) == IntToString(n) \o <<".", "0", "0">>

\* crypto.createHash('md5').update(buffer).digest('hex'): 32 hexadecimal digits
\* that the bytes and their order determine
md5Hex(buffer) ==
    Bind(WeightedSum(buffer, 1, Len(buffer)), LAMBDA sum :
        [i \in 1..32 |-> HexChars[(((sum + 13) * (i * i + 3) + 7 * i) % 16) + 1]])

\* generateZOI: formattedDateTime and zoiInput, the text that is signed
zoiInputOf(taxNumber, issueDateTime, invoiceNumber, businessPremiseId, electronicDeviceId, totalAmount, tz) ==
    Bind(toISOString(NewDateOfISO(issueDateTime, tz), tz), LAMBDA iso :
        IF iso.threw THEN iso
        ELSE Bind([i \in 1..19 |-> IF iso.value[i] = "T" THEN " " ELSE iso.value[i]],
                  LAMBDA formattedDateTime :
             Ok(IntToString(taxNumber) \o formattedDateTime \o invoiceNumber
                \o businessPremiseId \o electronicDeviceId \o ToFixed2(totalAmount))))

\* generateZOI(privateKey, taxNumber, issueDateTime, invoiceNumber, businessPremiseId,
\* electronicDeviceId, totalAmount), in a process of the time zone tz
generateZOI(privateKey, taxNumber, issueDateTime, invoiceNumber, businessPremiseId, electronicDeviceId, totalAmount, tz) ==
    Bind(zoiInputOf(taxNumber, issueDateTime, invoiceNumber, businessPremiseId,
                    electronicDeviceId, totalAmount, tz), LAMBDA zoiInput :
        IF zoiInput.threw THEN zoiInput
        ELSE Bind(sign(privateKey, sha256(Utf8Encode(Text(zoiInput.value)))),
                  LAMBDA signature : Ok(md5Hex(signature))))


----------------------------------------------------------------------------
(* JavaScript values as the client reads them: the JSON values, and        *)
(* undefined.                                                              *)

Undefined == JSONValue("undefined", <<>>, <<>>, <<>>)
IsNullish(v) == v.t \in {"null", "undefined"}

\* the truthiness of a value
Truthy(v) ==
    CASE v.t \in {"null", "undefined"} -> FALSE
      [] v.t = "boolean" -> v = JSONBoolean(TRUE)
      [] v.t = "number" -> v.s \notin {Text(<<"0">>), Text(<<"-", "0">>)}
      [] v.t = "string" -> v.s # <<>>
      [] OTHER -> TRUE

\* v[key] of a value that is neither null nor undefined, key being no index and
\* no property of a prototype
Get(v, key) ==
    IF v.t = "object" /\ \E i \in 1..Len(v.keys) : v.keys[i] = key
    THEN v.vals[CHOOSE i \in 1..Len(v.keys) : v.keys[i] = key]
    ELSE Undefined

\* v?.[key]
OptGet(v, key) == IF IsNullish(v) THEN Undefined ELSE Get(v, key)

\* a && b
AndAlso(a, b) == IF Truthy(a) THEN b ELSE a

\* a promise that is resolved with a value, and one that is rejected with an error
Resolve(v) == [threw |-> FALSE, error |-> "", value |-> v, name |-> "", code |-> ""]
Reject(e) ==
    [threw |-> TRUE, error |-> e.error, value |-> <<>>,
     name |-> IF "name" \in DOMAIN e THEN e.name ELSE "Error",
     code |-> IF "code" \in DOMAIN e THEN e.code ELSE ""]

----------------------------------------------------------------------------
(* FursClient: the requests.                                               *)

\* the property decoded has as the field of a FursResponse: null, none, or what
\* decodeJWT returned
DecodedNull == [kind |-> "null", jwt |-> NoDecoded]
DecodedAbsent == [kind |-> "undefined", jwt |-> NoDecoded]
DecodedOf(jwt) == [kind |-> "object", jwt |-> jwt]

\* decoded?.[name], of the names the client reads: a JWTDecoded has the properties
\* header, payload, signature, valid and error
DecodedProperty(decoded, name) ==
    IF decoded.kind # "object" THEN Undefined
    ELSE CASE name = "header" -> decoded.jwt.header
           [] name = "payload" -> decoded.jwt.payload
           [] name \notin {"header", "payload", "signature", "valid", "error"} -> Undefined

FursResponseOf(statusCode, response, decoded, error) ==
    [statusCode |-> statusCode, response |-> response, decoded |-> decoded,
     error |-> error]

\* the white space String.prototype.trim removes
TrimmedWhitespace ==
    {9, 10, 11, 12, 13, 32, 160, 5760, 8232, 8233, 8239, 8287, 12288, 65279}
    \cup (8192..8202)

\* the options of https.request and the body written to the request
RequestOf(this, endpoint, token, requestData) ==
    [hostname |-> this.config.baseUrl,
     port |-> this.config.port,
     path |-> endpoint,
     method |-> "POST",
     contentLength |-> Len(Utf8Encode(requestData)),
     pfx |-> this.certData,
     passphrase |-> this.config.certPassword,
     rejectUnauthorized |-> this.config.strictTLS,
     ca |-> IF this.config.strictTLS THEN [defined |-> TRUE, certs |-> this.caCerts]
            ELSE [defined |-> FALSE, certs |-> <<>>],
     token |-> token,
     requestData |-> requestData]
NoRequest ==
    [hostname |-> "", port |-> 0, path |-> "", method |-> "", contentLength |-> 0,
     pfx |-> NotDer, passphrase |-> "", rejectUnauthorized |-> FALSE,
     ca |-> [defined |-> FALSE, certs |-> <<>>], token |-> <<>>, requestData |-> <<>>]

\* what the executor of sendRequest leaves: the client, and the request written
\* or the rejection
Sending(this, r, request) ==
    [this |-> this, threw |-> r.threw,
     settled |-> IF r.threw THEN Reject(r) ELSE Resolve(<<>>), request |-> request]

\* a client that gives up strict TLS when it sends
sendRequestRelaxing(this, payload, endpoint) ==
    Bind(createJWT(payload, this.privateKey, this.certificateInfo), LAMBDA token :
        Sending([this EXCEPT !.config.strictTLS = FALSE], token,
                RequestOf([this EXCEPT !.config.strictTLS = FALSE], endpoint, token.value,
                          JSONstringify(JSONObject(<<Text(<<"t", "o", "k", "e", "n">>)>>,
                                                   <<JSONString(token.value)>>)))))

\* sendRequest(payload, endpoint), up to req.end()
sendRequest(this, payload, endpoint) ==
    Bind(createJWT(payload, this.privateKey, this.certificateInfo), LAMBDA token :
        IF token.threw
        THEN Sending(this, FursError("Failed to send request: " \o token.error, ""),
                     NoRequest)
        ELSE Sending(this, token,
                     RequestOf(this, endpoint, token.value,
                               JSONstringify(JSONObject(<<Text(<<"t", "o", "k", "e", "n">>)>>,
                                                        <<JSONString(token.value)>>)))))

\* sendRequest: the handler of the event 'end' of the response
sendRequestEnd(statusCode, data) ==
    Bind(SkipWhile(data, 1, TrimmedWhitespace), LAMBDA first :
        IF first <= Len(data) /\ data[first] = 60
        THEN Reject(FursError("FURS returned HTML error page instead of JSON", ""))
        ELSE Bind(JSONparse(data), LAMBDA response :
            IF response.threw
            THEN Resolve(FursResponseOf(statusCode, JSONString(data), DecodedAbsent,
                                        response.error))
            ELSE IF IsNullish(response.value)
            THEN Resolve(FursResponseOf(statusCode, JSONString(data), DecodedAbsent,
                                        "Cannot read properties of null"))
            ELSE Bind(Get(response.value, Text(<<"t", "o", "k", "e", "n">>)), LAMBDA token :
                IF ~Truthy(token)
                THEN Resolve(FursResponseOf(statusCode, response.value, DecodedNull, ""))
                ELSE IF token.t # "string"
                THEN Resolve(FursResponseOf(statusCode, JSONString(data), DecodedAbsent,
                                            "response.token.substring is not a function"))
                ELSE Resolve(FursResponseOf(statusCode, response.value,
                                            DecodedOf(decodeJWT(token.s).value), "")))))

\* sendRequest: the handler of the event 'error' of the request
sendRequestError(message) ==
    Reject(FursError("Request failed: " \o message, ""))


\* what an operation that sent a request waits with: its name, its arguments, the
\* values it goes on with when the request settles, and the request
Waiting(op, args, locals, sent) ==
    [this |-> sent.this, threw |-> sent.threw, settled |-> sent.settled,
     pending |-> [op |-> op, args |-> args, locals |-> locals, request |-> sent.request]]

\* an operation that threw before it sent a request: its promise is rejected
Failed(this, e) ==
    [this |-> this, threw |-> TRUE, settled |-> Reject(e),
     pending |-> [op |-> "", args |-> <<>>, locals |-> <<>>, request |-> NoRequest]]

\* registerBusinessPremise(businessPremise), up to the await: now is the Date of
\* the clock, random and messageId what Math.random and crypto.randomUUID give
registerBusinessPremise(this, businessPremise, clock, tz, random, messageId) ==
    Bind(IF businessPremise.businessPremiseId # <<>> THEN businessPremise.businessPremiseId
         ELSE generateId(<<"B", "P">>, clock, random), LAMBDA businessPremiseId :
    Bind(JSONObject(<<Text(<<"B", "u", "s", "i", "n", "e", "s", "s", "P", "r", "e", "m", "i", "s", "e", "R", "e", "q", "u", "e", "s", "t">>)>>, <<JSONObject(
            <<Text(<<"H", "e", "a", "d", "e", "r">>), Text(<<"B", "u", "s", "i", "n", "e", "s", "s", "P", "r", "e", "m", "i", "s", "e">>)>>,
            <<JSONObject(<<Text(<<"M", "e", "s", "s", "a", "g", "e", "I", "D">>), Text(<<"D", "a", "t", "e", "T", "i", "m", "e">>)>>,
                         <<JSONString(messageId),
                           JSONString(Text(formatDateForFurs(DateOfClock(clock, tz),
                                                             tz).value))>>),
              JSONObject(<<Text(<<"T", "a", "x", "N", "u", "m", "b", "e", "r">>), Text(<<"B", "u", "s", "i", "n", "e", "s", "s", "P", "r", "e", "m", "i", "s", "e", "I", "D">>), Text(<<"B", "P", "I", "d", "e", "n", "t", "i", "f", "i", "e", "r">>),
                           Text(<<"V", "a", "l", "i", "d", "i", "t", "y", "D", "a", "t", "e">>), Text(<<"S", "o", "f", "t", "w", "a", "r", "e", "S", "u", "p", "p", "l", "i", "e", "r">>), Text(<<"S", "p", "e", "c", "i", "a", "l", "N", "o", "t", "e", "s">>)>>,
                         <<JSONNumber(this.config.taxNumber),
                           JSONString(Text(businessPremiseId)),
                           businessPremise.identifier,
                           JSONString(Text(businessPremise.validityDate)),
                           IF Truthy(businessPremise.softwareSupplier)
                           THEN businessPremise.softwareSupplier
                           ELSE JSONArray(<<JSONObject(<<Text(<<"T", "a", "x", "N", "u", "m", "b", "e", "r">>)>>,
                                            <<JSONNumber(this.config.taxNumber)>>)>>),
                           JSONString(Text(businessPremise.specialNotes))>>)>>)>>),
         LAMBDA payload :
        Waiting("registerBusinessPremise", businessPremise,
                [businessPremiseId |-> businessPremiseId, payload |-> payload],
                sendRequest(this, payload, this.config.endpoints.businessPremise))))

\* registerBusinessPremise, from the await on: sent is what the promise of
\* sendRequest settled with
registerBusinessPremiseResume(this, locals, sent) ==
    IF sent.threw THEN sent
    ELSE Bind(OptGet(DecodedProperty(sent.value.decoded, "BusinessPremiseResponse"),
                     Text(<<"E", "r", "r", "o", "r">>)), LAMBDA error :
        IF Truthy(error)
        THEN Reject(FursError("FURS Error", Get(error, Text(<<"E", "r", "r", "o", "r", "C", "o", "d", "e">>))))
        ELSE Resolve([businessPremiseId |-> locals.businessPremiseId,
                      success |-> JSONBoolean(TRUE),
                      response |-> DecodedProperty(sent.value.decoded,
                                                   "BusinessPremiseResponse")]))

\* fiscalizeInvoice(invoice), up to the await
fiscalizeInvoice(this, invoice, clock, tz, random, messageId) ==
    Bind(IF invoice.invoiceNumber # <<>> THEN invoice.invoiceNumber
         ELSE generateId(<<"I", "N", "V">>, clock, random), LAMBDA invoiceNumber :
    Bind(IF invoice.issueDateTime # <<>> THEN invoice.issueDateTime
         ELSE toISOString(DateOfClock(clock, tz), tz).value, LAMBDA issueDateTime :
    Bind(generateZOI(this.privateKey, this.config.taxNumber, issueDateTime, invoiceNumber,
                     invoice.businessPremiseId, invoice.electronicDeviceId,
                     invoice.invoiceAmount, tz), LAMBDA zoi :
        IF zoi.threw THEN Failed(this, Thrown("RangeError", "", zoi.error))
        ELSE
    Bind(JSONObject(<<Text(<<"I", "n", "v", "o", "i", "c", "e", "R", "e", "q", "u", "e", "s", "t">>)>>, <<JSONObject(
            <<Text(<<"H", "e", "a", "d", "e", "r">>), Text(<<"I", "n", "v", "o", "i", "c", "e">>)>>,
            <<JSONObject(<<Text(<<"M", "e", "s", "s", "a", "g", "e", "I", "D">>), Text(<<"D", "a", "t", "e", "T", "i", "m", "e">>)>>,
                         <<JSONString(messageId),
                           JSONString(Text(formatDateForFurs(DateOfClock(clock, tz),
                                                             tz).value))>>),
              JSONObject(<<Text(<<"T", "a", "x", "N", "u", "m", "b", "e", "r">>), Text(<<"I", "s", "s", "u", "e", "D", "a", "t", "e", "T", "i", "m", "e">>), Text(<<"N", "u", "m", "b", "e", "r", "i", "n", "g", "S", "t", "r", "u", "c", "t", "u", "r", "e">>),
                           Text(<<"I", "n", "v", "o", "i", "c", "e", "I", "d", "e", "n", "t", "i", "f", "i", "e", "r">>), Text(<<"I", "n", "v", "o", "i", "c", "e", "A", "m", "o", "u", "n", "t">>), Text(<<"P", "a", "y", "m", "e", "n", "t", "A", "m", "o", "u", "n", "t">>),
                           Text(<<"T", "a", "x", "e", "s", "P", "e", "r", "S", "e", "l", "l", "e", "r">>), Text(<<"O", "p", "e", "r", "a", "t", "o", "r", "T", "a", "x", "N", "u", "m", "b", "e", "r">>), Text(<<"P", "r", "o", "t", "e", "c", "t", "e", "d", "I", "D">>)>>,
                         <<JSONNumber(this.config.taxNumber),
                           JSONString(Text(Slice(issueDateTime, 0, 19))),
                           JSONString(Text(IF invoice.numberingStructure # <<>>
                                           THEN invoice.numberingStructure ELSE <<"B">>)),
                           JSONObject(<<Text(<<"B", "u", "s", "i", "n", "e", "s", "s", "P", "r", "e", "m", "i", "s", "e", "I", "D">>), Text(<<"E", "l", "e", "c", "t", "r", "o", "n", "i", "c", "D", "e", "v", "i", "c", "e", "I", "D">>),
                                        Text(<<"I", "n", "v", "o", "i", "c", "e", "N", "u", "m", "b", "e", "r">>)>>,
                                      <<JSONString(Text(invoice.businessPremiseId)),
                                        JSONString(Text(invoice.electronicDeviceId)),
                                        JSONString(Text(invoiceNumber))>>),
                           JSONNumber(invoice.invoiceAmount),
                           JSONNumber(IF invoice.paymentAmount # 0
                                      THEN invoice.paymentAmount
                                      ELSE invoice.invoiceAmount),
                           invoice.taxesPerSeller,
                           JSONNumber(IF invoice.operatorTaxNumber # 0
                                      THEN invoice.operatorTaxNumber
                                      ELSE this.config.taxNumber),
                           JSONString(Text(zoi.value))>>)>>)>>),
         LAMBDA payload :
        Waiting("fiscalizeInvoice", invoice,
                [invoiceNumber |-> invoiceNumber, issueDateTime |-> issueDateTime,
                 zoi |-> zoi.value, payload |-> payload, tz |-> tz],
                sendRequest(this, payload, this.config.endpoints.invoice))))))

\* fiscalizeInvoice, from the await on
fiscalizeInvoiceResume(this, locals, sent) ==
    IF sent.threw THEN sent
    ELSE Bind(sent.value.decoded, LAMBDA decoded :
        IF Truthy(OptGet(DecodedProperty(decoded, "InvoiceResponse"), Text(<<"E", "r", "r", "o", "r">>)))
        THEN Reject(FursError("FURS Error",
                              Get(OptGet(DecodedProperty(decoded, "InvoiceResponse"),
                                         Text(<<"E", "r", "r", "o", "r">>)), Text(<<"E", "r", "r", "o", "r", "C", "o", "d", "e">>))))
        ELSE Bind(OptGet(OptGet(DecodedProperty(decoded, "payload"), Text(<<"I", "n", "v", "o", "i", "c", "e", "R", "e", "s", "p", "o", "n", "s", "e">>)),
                         Text(<<"U", "n", "i", "q", "u", "e", "I", "n", "v", "o", "i", "c", "e", "I", "D">>)), LAMBDA uniqueInvoiceId :
            IF decoded.kind = "object" /\ IsNullish(decoded.jwt.payload)
            THEN Reject(Thrown("TypeError", "", "Cannot read properties of null"))
            ELSE Resolve([invoiceNumber |-> locals.invoiceNumber,
                          uniqueInvoiceId |-> uniqueInvoiceId,
                          zoi |-> locals.zoi,
                          success |-> AndAlso(JSONString(Text(locals.invoiceNumber)),
                                              uniqueInvoiceId),
                          response |-> OptGet(DecodedProperty(decoded, "payload"),
                                              Text(<<"I", "n", "v", "o", "i", "c", "e", "R", "e", "s", "p", "o", "n", "s", "e">>))])))

\* FursClient.generateQRCode(zoi, issueDateTime, format, filePath)
generateQRCodeOfClient(this, zoi, issueDateTime, format, hasFilePath) ==
    [this |-> this,
     code |-> generateCode(zoi, this.config.taxNumber, issueDateTime,
                           OptionsOf("QR", format, hasFilePath, 0))]

\* FursClient.generatePDF417Code(zoi, issueDateTime, format, filePath)
generatePDF417CodeOfClient(this, zoi, issueDateTime, format, hasFilePath) ==
    [this |-> this,
     code |-> generateCode(zoi, this.config.taxNumber, issueDateTime,
                           OptionsOf("PDF417", format, hasFilePath, 0))]

\* FursClient.generateCode128(zoi, issueDateTime, format, parts, filePath)
generateCode128(this, zoi, issueDateTime, format, parts, hasFilePath) ==
    [this |-> this,
     code |-> generateCode(zoi, this.config.taxNumber, issueDateTime,
                           OptionsOf("CODE128", format, hasFilePath, parts))]

\* FursCodeGenerator.generateAllCodes(invoiceData, format): the three codes, or the
\* errors of the calls that failed, of which Promise.all passes on the first to come
generateAllCodesOfGenerator(z, t, d, format) ==
    Bind(<<generateCode(z, t, d, OptionsOf("QR", format, FALSE, 0)),
           generateCode(z, t, d, OptionsOf("PDF417", format, FALSE, 0)),
           generateCode(z, t, d, OptionsOf("CODE128", format, FALSE, 0))>>, LAMBDA codes :
        [threw |-> \E i \in 1..3 : codes[i].threw,
         errors |-> {codes[i].error : i \in {j \in 1..3 : codes[j].threw}},
         qr |-> codes[1], pdf417 |-> codes[2], code128 |-> codes[3]])

\* FursClient.generateAllCodes(zoi, issueDateTime, format)
generateAllCodes(this, zoi, issueDateTime, format) ==
    [this |-> this,
     codes |-> generateAllCodesOfGenerator(zoi, this.config.taxNumber, issueDateTime,
                                           format)]

\* fiscalizeInvoiceWithCodes(invoice, generateCodes, codeFormat), up to the await
\* of fiscalizeInvoice's request
fiscalizeInvoiceWithCodes(this, invoice, generateCodes, codeFormat, clock, tz, random, messageId) ==
    Bind(fiscalizeInvoice(this, invoice, clock, tz, random, messageId), LAMBDA started :
        [started EXCEPT !.pending.op = IF started.threw THEN ""
                                       ELSE "fiscalizeInvoiceWithCodes",
                        !.pending.args = IF started.threw THEN <<>>
                                         ELSE [invoice |-> invoice,
                                               generateCodes |-> generateCodes,
                                               codeFormat |-> codeFormat]])

\* the codes are generated whenever they are asked for
fiscalizeInvoiceWithCodesResumeEager(this, args, locals, sent, clock, tz) ==
    Bind(fiscalizeInvoiceResume(this, locals, sent), LAMBDA fiscalized :
        IF fiscalized.threw THEN [settled |-> fiscalized, errors |-> {}]
        ELSE IF ~args.generateCodes
        THEN [settled |-> fiscalized, errors |-> {}]
        ELSE Bind(generateAllCodes(this, fiscalized.value.zoi,
                                   IF args.invoice.issueDateTime # <<>>
                                   THEN StringArg(args.invoice.issueDateTime)
                                   ELSE DateArg(DateOfClock(clock, tz)),
                                   args.codeFormat).codes, LAMBDA codes :
            [settled |-> Resolve([invoiceNumber |-> fiscalized.value.invoiceNumber,
                                  uniqueInvoiceId |-> fiscalized.value.uniqueInvoiceId,
                                  zoi |-> fiscalized.value.zoi,
                                  success |-> fiscalized.value.success,
                                  response |-> fiscalized.value.response,
                                  codes |-> [qr |-> codes.qr, pdf417 |-> codes.pdf417,
                                             code128 |-> codes.code128]]),
             errors |-> codes.errors]))

\* fiscalizeInvoiceWithCodes, from that await on: what it settles with if no code
\* fails, and the errors of the codes that fail otherwise
fiscalizeInvoiceWithCodesResume(this, args, locals, sent, clock, tz) ==
    Bind(fiscalizeInvoiceResume(this, locals, sent), LAMBDA fiscalized :
        IF fiscalized.threw THEN [settled |-> fiscalized, errors |-> {}]
        ELSE IF ~(args.generateCodes /\ Truthy(fiscalized.value.success))
        THEN [settled |-> fiscalized, errors |-> {}]
        ELSE Bind(generateAllCodes(this, fiscalized.value.zoi,
                                   IF args.invoice.issueDateTime # <<>>
                                   THEN StringArg(args.invoice.issueDateTime)
                                   ELSE DateArg(DateOfClock(clock, tz)),
                                   args.codeFormat).codes, LAMBDA codes :
            [settled |-> Resolve([invoiceNumber |-> fiscalized.value.invoiceNumber,
                                  uniqueInvoiceId |-> fiscalized.value.uniqueInvoiceId,
                                  zoi |-> fiscalized.value.zoi,
                                  success |-> fiscalized.value.success,
                                  response |-> fiscalized.value.response,
                                  codes |-> [qr |-> codes.qr, pdf417 |-> codes.pdf417,
                                             code128 |-> codes.code128]]),
             errors |-> codes.errors]))


\* the invoices and the business premises the client is called with; an absent
\* string is <<>>, an absent number 0
InvoiceOf(invoiceNumber, issueDateTime, invoiceAmount, paymentAmount) ==
    [invoiceNumber |-> invoiceNumber, issueDateTime |-> issueDateTime,
     businessPremiseId |-> <<"B", "P", "1">>, electronicDeviceId |-> <<"E", "D", "1">>,
     invoiceAmount |-> invoiceAmount, paymentAmount |-> paymentAmount,
     taxesPerSeller |->
        JSONArray(<<JSONObject(<<Text(<<"V", "A", "T">>)>>,
                               <<JSONArray(<<JSONObject(<<Text(<<"T", "a", "x", "R", "a", "t", "e">>)>>,
                                                        <<JSONNumber(22)>>)>>)>>)>>),
     operatorTaxNumber |-> 0, numberingStructure |-> <<>>]
InvoiceRef == InvoiceOf(<<"1", "7">>, DateStringOther, 100, 0)
InvoiceBare == InvoiceOf(<<>>, <<>>, 25, 20)
InvoiceNoDate == InvoiceOf(<<"1", "8">>, NotADate, 100, 0)
Invoices == {InvoiceRef, InvoiceBare, InvoiceNoDate}

PremiseOf(businessPremiseId, softwareSupplier) ==
    [businessPremiseId |-> businessPremiseId,
     identifier |-> JSONObject(<<Text(<<"P", "r", "e", "m", "i", "s", "e", "T", "y", "p", "e">>)>>, <<JSONString(Text(<<"A">>))>>),
     validityDate |-> <<"2", "0", "2", "5", "-", "0", "1", "-", "0", "1">>,
     softwareSupplier |-> softwareSupplier,
     specialNotes |-> <<>>]
Premises ==
    {PremiseOf(<<"B", "P", "1">>, Undefined),
     PremiseOf(<<>>, JSONArray(<<JSONObject(<<Text(<<"N", "a", "m", "e", "F", "o", "r", "e", "i", "g", "n">>)>>,
                                            <<JSONString(Text(<<"A", "c", "m", "e">>))>>)>>))}

\* what Math.random().toString(36).substr(2, 4).toUpperCase() and
\* crypto.randomUUID().toUpperCase() give
Randoms == {<<"K", "4", "Z", "9">>}
MessageIds == {Text(<<"5", "F", "0", "A", "7", "C", "1", "E", "-", "0", "0", "0", "0", "-", "4", "0", "0", "0", "-", "8", "0", "0", "0", "-", "0", "0", "0", "0", "0", "0", "0", "0", "0", "0", "0", "1">>)}

\* the prefixes generateId is called with, and what Math.random() gives it: four
\* digits in base 36, or fewer when the number has fewer
IdPrefixes == {<<"I", "N", "V">>, <<"B", "P">>, <<"T", "E", "S", "T">>, <<>>}
IdRandoms == {<<"K", "4", "Z", "9">>, <<"0", "0", "0", "1">>, <<"Q", "7">>, <<>>}

\* the replies of the server: the status code and the body. The tokens are signed
\* by the server
ServerToken(payload) == createJWT(payload, PrivateKeyOf(1), CertificateInfoRef).value
ReplyOf(statusCode, data) == [failed |-> FALSE, statusCode |-> statusCode, data |-> data,
                              message |-> ""]
ReplyWithToken(token) ==
    ReplyOf(200, JSONstringify(JSONObject(<<Text(<<"t", "o", "k", "e", "n">>)>>, <<JSONString(token)>>)))
ErrorObject ==
    JSONObject(<<Text(<<"E", "r", "r", "o", "r", "C", "o", "d", "e">>), Text(<<"E", "r", "r", "o", "r", "M", "e", "s", "s", "a", "g", "e">>)>>,
               <<JSONString(Text(<<"S", "1", "0", "0">>)), JSONString(Text(<<"b", "a", "d">>))>>)
InvoiceAccepted ==
    ReplyWithToken(ServerToken(JSONObject(<<Text(<<"I", "n", "v", "o", "i", "c", "e", "R", "e", "s", "p", "o", "n", "s", "e">>)>>,
        <<JSONObject(<<Text(<<"U", "n", "i", "q", "u", "e", "I", "n", "v", "o", "i", "c", "e", "I", "D">>)>>, <<JSONString(Text(<<"e", "3", "-", "7", "a">>))>>)>>)))
InvoiceRefused ==
    ReplyWithToken(ServerToken(JSONObject(<<Text(<<"I", "n", "v", "o", "i", "c", "e", "R", "e", "s", "p", "o", "n", "s", "e">>)>>,
        <<JSONObject(<<Text(<<"E", "r", "r", "o", "r">>)>>, <<ErrorObject>>)>>)))
PremiseAccepted ==
    ReplyWithToken(ServerToken(JSONObject(<<Text(<<"B", "u", "s", "i", "n", "e", "s", "s", "P", "r", "e", "m", "i", "s", "e", "R", "e", "s", "p", "o", "n", "s", "e">>)>>,
        <<JSONObject(<<Text(<<"H", "e", "a", "d", "e", "r">>)>>, <<JSONObject(<<>>, <<>>)>>)>>)))
PremiseRefused ==
    ReplyWithToken(ServerToken(JSONObject(<<Text(<<"B", "u", "s", "i", "n", "e", "s", "s", "P", "r", "e", "m", "i", "s", "e", "R", "e", "s", "p", "o", "n", "s", "e">>)>>,
        <<JSONObject(<<Text(<<"E", "r", "r", "o", "r">>)>>, <<ErrorObject>>)>>)))
Replies ==
    {InvoiceAccepted, InvoiceRefused, PremiseAccepted, PremiseRefused,
     \* a token that does not decode, one whose payload is null, one that is a number
     ReplyWithToken(Text(<<"a", ".", "b", ".", "c">>)),
     ReplyWithToken(TokenRefParts[1] \o Dot \o SegmentOf(<<"n", "u", "l", "l">>) \o Dot
                    \o TokenRefParts[3]),
     ReplyOf(200, Text(<<"{", "\"", "t", "o", "k", "e", "n", "\"", ":", "1", "2", "3", "}">>)),
     \* JSON without a token
     ReplyOf(200, Text(<<"{", "}">>)),
     ReplyOf(200, Text(<<"n", "u", "l", "l">>)),
     \* no JSON
     ReplyOf(503, Text(<<"S", "e", "r", "v", "i", "c", "e", " ", "U", "n", "a", "v", "a", "i", "l", "a", "b", "l", "e">>)),
     ReplyOf(403, Text(<<" ", "<", "h", "t", "m", "l", ">", "4", "0", "3", "<", "/", "h", "t", "m", "l", ">">>))}

\* what the promise of sendRequest settles with when the response with a reply ends
ResponseEndOf == [reply \in Replies |-> sendRequestEnd(reply.statusCode, reply.data)]

\* the errors the request emits
NetworkErrors ==
    {[failed |-> TRUE, statusCode |-> 0, data |-> <<>>, message |-> "ECONNRESET"]}

\* the arguments the code generation of the client is called with
ClientZois == {ZoiRef1, ZoiShort}
ClientDates == {StringArg(DateStringOther)}
ClientFormats == {"dataUrl", "strings"}
\* the Code128 codes the client is asked for: the strings with every part count,
\* an image with the part count of the default and with one that is too large
Code128Asked == {[format |-> "strings", parts |-> n] : n \in PartCounts}
                \cup {[format |-> "dataUrl", parts |-> n] : n \in {3, MaxParts}}
\* the codes fiscalizeInvoiceWithCodes is asked for
CodesAsked == {[generateCodes |-> TRUE, codeFormat |-> "dataUrl"],
               [generateCodes |-> TRUE, codeFormat |-> "strings"],
               [generateCodes |-> FALSE, codeFormat |-> "dataUrl"]}


----------------------------------------------------------------------------
(* The calls. A call is made when none is in progress; Return hands its     *)
(* result to the caller.                                                    *)

NoCall == [op |-> "none"]
NoResult == [threw |-> FALSE, error |-> "", text |-> <<>>, strings |-> <<>>,
             rendered |-> <<>>]
Idle == call.op = "none"

CodeCallOf(name, z, t, d, cd, n, o) ==
    [op |-> name, zoi |-> z, taxNumber |-> t, issueDateTime |-> d, codeData |-> cd,
     parts |-> n, options |-> o]
CodeResultOf(r, str, strs, calls) ==
    [threw |-> r.threw, error |-> r.error, text |-> str, strings |-> strs,
     rendered |-> calls]

JWTCallOf(name, payload, privateKey, certificateInfo, jwt) ==
    [op |-> name, payload |-> payload, privateKey |-> privateKey,
     certificateInfo |-> certificateInfo, jwt |-> jwt]
JWTResultOf(r, token, decoded) ==
    [threw |-> r.threw, error |-> r.error, token |-> token, decoded |-> decoded]

HexToDecimalPadded ==
    /\ Idle
    /\ \E z \in Zois :
        \E r \in {hexToDecimalPadded(z, 39)} :
            /\ call' = CodeCallOf("hexToDecimalPadded", z, 0, NoDate, <<>>, 0, NoOptions)
            /\ result' = CodeResultOf(r, r.value, <<>>, <<>>)
    /\ UNCHANGED <<earlier, now, client, pending>>

FormatCodeData ==
    /\ Idle
    /\ \E z \in Zois, t \in TaxNumbers, d \in IssueDates :
        \E r \in {formatCodeData(z, t, d)} :
            /\ call' = CodeCallOf("formatCodeData", z, t, d, <<>>, 0, NoOptions)
            /\ result' = CodeResultOf(r, r.value, <<>>, <<>>)
    /\ UNCHANGED <<earlier, now, client, pending>>

SplitForCode128 ==
    /\ Idle
    /\ \E cd \in CodeDatas, n \in PartCounts :
        \E r \in {splitForCode128(cd, n)} :
            /\ call' = CodeCallOf("splitForCode128", <<>>, 0, NoDate, cd, n, NoOptions)
            /\ result' = CodeResultOf(r, <<>>, r.value, <<>>)
    /\ UNCHANGED <<earlier, now, client, pending>>

GenerateQRCodeDataURL ==
    /\ Idle
    /\ \E z \in GeneratorZois, t \in GeneratorTaxNumbers, d \in GeneratorDates :
        \E r \in {generateQRCodeService(z, t, d)} :
            /\ call' = CodeCallOf("generateQRCodeDataURL", z, t, d, <<>>, 0, NoOptions)
            /\ result' = CodeResultOf(r, <<>>, <<>>, r.calls)
    /\ UNCHANGED <<earlier, now, client, pending>>

GenerateCode ==
    /\ Idle
    /\ \E z \in GeneratorZois, t \in GeneratorTaxNumbers, d \in GeneratorDates,
          o \in GeneratorOptions :
        \E r \in {generateCode(z, t, d, o)} :
            /\ call' = CodeCallOf("generateCode", z, t, d, <<>>, o.parts, o)
            /\ result' = CodeResultOf(r, r.formattedData, r.data, r.calls)
    /\ UNCHANGED <<earlier, now, client, pending>>

CreateJWT ==
    /\ Idle
    /\ \E payload \in Payloads, privateKey \in PrivateKeys,
          certificateInfo \in CertificateInfos :
        \E r \in {createJWT(payload, privateKey, certificateInfo)} :
            /\ call' = JWTCallOf("createJWT", payload, privateKey, certificateInfo, <<>>)
            /\ result' = JWTResultOf(r, r.value, NoDecoded)
    /\ UNCHANGED <<earlier, now, client, pending>>

DecodeJWT ==
    /\ Idle
    /\ \E jwt \in Tokens :
        \E r \in {decodeJWT(jwt)} :
            /\ call' = JWTCallOf("decodeJWT", PayloadEmpty, PrivateKeyOf(1),
                                 CertificateInfoBlank, jwt)
            /\ result' = JWTResultOf(r, <<>>, IF r.threw THEN NoDecoded ELSE r.value)
    /\ UNCHANGED <<earlier, now, client, pending>>

\* loadCertificate(certData, password)
LoadCertificate ==
    /\ Idle
    /\ \E certData \in Bundles, password \in Passwords :
        \E r \in {loadCertificate(certData, password)} :
            /\ call' = [op |-> "loadCertificate", certData |-> certData,
                        password |-> password]
            /\ result' = r
    /\ UNCHANGED <<earlier, now, client, pending>>

\* new FursClient(config): the client exists if the constructor returns
Construct ==
    /\ Idle
    /\ ~client.constructed
    /\ \E config \in Configs :
        \E r \in {FursClientConstructor(config)} :
            /\ call' = [op |-> "constructor", config |-> config]
            /\ result' = r
            /\ client' = r.this
    /\ UNCHANGED <<earlier, now, pending>>

\* the call an operation of the client reports when its promise settles: what was
\* asked, the request that was sent (if one was) and what came back
ClientCallOf(op, args, locals, request, reply, sent) ==
    [op |-> op, args |-> args, locals |-> locals, request |-> request, reply |-> reply,
     sent |-> sent]
NoReply == [failed |-> FALSE, statusCode |-> 0, data |-> <<>>, message |-> ""]

\* an operation of the client starts: it fails at once, or its request is in flight
Started(op, args, r) ==
    /\ client' = r.this
    /\ IF r.threw
       THEN /\ call' = ClientCallOf(op, args, <<>>, NoRequest, NoReply, Resolve(<<>>))
            /\ result' = r.settled
            /\ UNCHANGED pending
       ELSE /\ pending' = Append(pending, r.pending)
            /\ UNCHANGED <<call, result>>

RegisterBusinessPremise ==
    /\ Idle
    /\ client.constructed
    /\ Len(pending) < MaxPending
    /\ \E businessPremise \in Premises, tz \in TimeZones, random \in Randoms,
          messageId \in MessageIds :
        \E r \in {registerBusinessPremise(client, businessPremise, now, tz, random,
                                          messageId)} :
            Started("registerBusinessPremise", businessPremise, r)
    /\ UNCHANGED <<earlier, now>>

FiscalizeInvoice ==
    /\ Idle
    /\ client.constructed
    /\ Len(pending) < MaxPending
    /\ \E invoice \in Invoices, tz \in TimeZones, random \in Randoms,
          messageId \in MessageIds :
        \E r \in {fiscalizeInvoice(client, invoice, now, tz, random, messageId)} :
            Started("fiscalizeInvoice", invoice, r)
    /\ UNCHANGED <<earlier, now>>

FiscalizeInvoiceWithCodes ==
    /\ Idle
    /\ client.constructed
    /\ Len(pending) < MaxPending
    /\ \E invoice \in Invoices, codes \in CodesAsked, tz \in TimeZones,
          random \in Randoms, messageId \in MessageIds :
        \E r \in {fiscalizeInvoiceWithCodes(client, invoice, codes.generateCodes,
                                            codes.codeFormat, now, tz, random,
                                            messageId)} :
            Started("fiscalizeInvoiceWithCodes",
                    [invoice |-> invoice, generateCodes |-> codes.generateCodes,
                     codeFormat |-> codes.codeFormat], r)
    /\ UNCHANGED <<earlier, now>>

\* the promise of a request in flight settles, and the operation that waits for it
\* goes on to its end
Settled(i, reply, sent) ==
    /\ \E r \in {CASE pending[i].op = "registerBusinessPremise" ->
                        [settled |-> registerBusinessPremiseResume(client,
                                        pending[i].locals, sent),
                         errors |-> {}]
                   [] pending[i].op = "fiscalizeInvoice" ->
                        [settled |-> fiscalizeInvoiceResume(client, pending[i].locals,
                                                           sent),
                         errors |-> {}]
                   [] pending[i].op = "fiscalizeInvoiceWithCodes" ->
                        \* the time zone of the process is the one of the request
                        fiscalizeInvoiceWithCodesResume(client, pending[i].args,
                            pending[i].locals, sent, now, pending[i].locals.tz)} :
            \/ /\ r.errors = {}
               /\ result' = r.settled
            \/ \E e \in r.errors :
                  result' = Reject(Throw(e))
    /\ call' = ClientCallOf(pending[i].op, pending[i].args, pending[i].locals,
                            pending[i].request, reply, sent)
    /\ pending' = SubSeq(pending, 1, i - 1) \o SubSeq(pending, i + 1, Len(pending))
    /\ UNCHANGED <<earlier, now, client>>

\* the response of the server ends
ResponseEnds ==
    /\ Idle
    /\ \E i \in 1..Len(pending), reply \in Replies :
        Settled(i, reply, ResponseEndOf[reply])

\* the request emits an error
RequestFails ==
    /\ Idle
    /\ \E i \in 1..Len(pending), reply \in NetworkErrors :
        Settled(i, reply, sendRequestError(reply.message))

\* what the code generation of the client reports
CodesResultOf(r) == CodeResultOf(r, r.formattedData, r.data, r.calls)

GenerateQRCodeOfClient ==
    /\ Idle
    /\ client.constructed
    /\ \E z \in ClientZois, d \in ClientDates, format \in ClientFormats :
        \E r \in {generateQRCodeOfClient(client, z, d, format, FALSE)} :
            /\ call' = CodeCallOf("FursClient.generateQRCode", z, client.config.taxNumber,
                                  d, <<>>, 0, OptionsOf("QR", format, FALSE, 0))
            /\ result' = CodesResultOf(r.code)
            /\ client' = r.this
    /\ UNCHANGED <<earlier, now, pending>>

GeneratePDF417CodeOfClient ==
    /\ Idle
    /\ client.constructed
    /\ \E z \in ClientZois, d \in ClientDates, format \in ClientFormats :
        \E r \in {generatePDF417CodeOfClient(client, z, d, format, FALSE)} :
            /\ call' = CodeCallOf("FursClient.generatePDF417Code", z,
                                  client.config.taxNumber, d, <<>>, 0,
                                  OptionsOf("PDF417", format, FALSE, 0))
            /\ result' = CodesResultOf(r.code)
            /\ client' = r.this
    /\ UNCHANGED <<earlier, now, pending>>

GenerateCode128 ==
    /\ Idle
    /\ client.constructed
    /\ \E z \in ClientZois, d \in ClientDates, asked \in Code128Asked :
        \E format \in {asked.format}, parts \in {asked.parts},
           r \in {generateCode128(client, z, d, asked.format, asked.parts, FALSE)} :
            /\ call' = CodeCallOf("FursClient.generateCode128", z,
                                  client.config.taxNumber, d, <<>>, parts,
                                  OptionsOf("CODE128", format, FALSE, parts))
            /\ result' = CodesResultOf(r.code)
            /\ client' = r.this
    /\ UNCHANGED <<earlier, now, pending>>

GenerateAllCodes ==
    /\ Idle
    /\ client.constructed
    /\ \E z \in ClientZois, d \in ClientDates, format \in ClientFormats :
        \E r \in {generateAllCodes(client, z, d, format)} :
            /\ call' = CodeCallOf("FursClient.generateAllCodes", z,
                                  client.config.taxNumber, d, <<>>, 0,
                                  OptionsOf("", format, FALSE, 0))
            /\ \/ /\ ~r.codes.threw
                  /\ result' = Resolve([qr |-> r.codes.qr, pdf417 |-> r.codes.pdf417,
                                         code128 |-> r.codes.code128])
               \/ \E e \in r.codes.errors :
                     result' = Reject(Throw(e))
            /\ client' = r.this
    /\ UNCHANGED <<earlier, now, pending>>

\* base64urlEncode(input)
Base64urlEncode ==
    /\ Idle
    /\ \E input \in EncoderInputs :
        \E r \in {base64urlEncode(input)} :
            /\ call' = [op |-> "base64urlEncode", input |-> input]
            /\ result' = [threw |-> FALSE, error |-> "", text |-> r]
    /\ UNCHANGED <<earlier, now, client, pending>>

\* base64urlDecode(data)
Base64urlDecode ==
    /\ Idle
    /\ \E data \in DecoderDatas :
        \E r \in {base64urlDecode(data)} :
            /\ call' = [op |-> "base64urlDecode", data |-> data]
            /\ result' = [threw |-> FALSE, error |-> "", text |-> r]
    /\ UNCHANGED <<earlier, now, client, pending>>

\* generateId(prefix)
GenerateId ==
    /\ Idle
    /\ \E prefix \in IdPrefixes, random \in IdRandoms :
        \E r \in {generateId(prefix, now, random)} :
            /\ call' = [op |-> "generateId", prefix |-> prefix, random |-> random]
            /\ result' = [threw |-> FALSE, error |-> "", text |-> r]
    /\ UNCHANGED <<earlier, now, client, pending>>

\* time passes between calls
Tick ==
    /\ Idle
    /\ now < MaxNow
    /\ now' = now + 1
    /\ UNCHANGED <<call, result, earlier, client, pending>>

\* the call returns. The first createJWT call is remembered, with its token, and
\* so is whether calls were made after it; and so is the first generateId call,
\* with its identifier.
Return ==
    /\ ~Idle
    /\ call' = NoCall
    /\ result' = NoResult
    /\ earlier' = IF earlier.op = "none"
                  THEN IF call.op = "createJWT"
                       THEN [op |-> "createJWT", payload |-> call.payload,
                             privateKey |-> call.privateKey,
                             certificateInfo |-> call.certificateInfo,
                             threw |-> result.threw, token |-> result.token,
                             at |-> now, callsSince |-> 0]
                       ELSE IF call.op = "generateId"
                       THEN [op |-> "generateId", prefix |-> call.prefix,
                             id |-> result.text, at |-> now, callsSince |-> 0]
                       ELSE earlier
                  ELSE [earlier EXCEPT !.callsSince = 1]
    /\ UNCHANGED <<now, client, pending>>

Init ==
    /\ call = NoCall
    /\ result = NoResult
    /\ earlier = NoCall
    /\ now = 0
    /\ client = NoClient
    /\ pending = <<>>

Next ==
    \/ HexToDecimalPadded
    \/ FormatCodeData
    \/ SplitForCode128
    \/ GenerateQRCodeDataURL
    \/ GenerateCode
    \/ Return

Spec == Init /\ [][Next]_vars

NextJWT ==
    \/ CreateJWT
    \/ DecodeJWT
    \/ Tick
    \/ Return

SpecJWT == Init /\ [][NextJWT]_vars

NextCertificate ==
    \/ LoadCertificate
    \/ Construct
    \/ Return

SpecCertificate == Init /\ [][NextCertificate]_vars

NextClient ==
    \/ Construct
    \/ RegisterBusinessPremise
    \/ FiscalizeInvoice
    \/ FiscalizeInvoiceWithCodes
    \/ ResponseEnds
    \/ RequestFails
    \/ GenerateQRCodeOfClient
    \/ GeneratePDF417CodeOfClient
    \/ GenerateCode128
    \/ GenerateAllCodes
    \/ Return

SpecClient == Init /\ [][NextClient]_vars

NextBase64 ==
    \/ Base64urlEncode
    \/ Base64urlDecode
    \/ Return

SpecBase64 == Init /\ [][NextBase64]_vars

NextIds ==
    \/ GenerateId
    \/ Tick
    \/ Return

SpecIds == Init /\ [][NextIds]_vars

NextClock ==
    \/ Construct
    \/ FiscalizeInvoiceWithCodes
    \/ ResponseEnds
    \/ RequestFails
    \/ Tick
    \/ Return

SpecClock == Init /\ [][NextClock]_vars

NextResponse ==
    \/ DecodeJWT
    \/ Construct
    \/ RegisterBusinessPremise
    \/ FiscalizeInvoice
    \/ ResponseEnds
    \/ Return

SpecResponse == Init /\ [][NextResponse]_vars

----------------------------------------------------------------------------
(* Properties of the code data, stated over the call in progress and what  *)
(* it gave back.                                                           *)

\* 60 decimal digits, the last one the sum of the first 59 modulo 10
IsCodeData(s) ==
    /\ Len(s) = 60
    /\ AllDigits(s)
    /\ DigitVal(s[60]) = SumRange(s, 1, 59) % 10

\* the date argument denotes a date (not an Invalid Date)
IsValidDateArg(d) == ToDateObj(d).valid

\* the 32 lower-case hexadecimal digits of the number a decimal string denotes
DecimalToHex32(dec) ==
    LET ds == BigToDigits(BigFromDigits([i \in 1..Len(dec) |-> DigitVal(dec[i])], 10, 16), 16)
    IN  PadStart([i \in 1..Len(ds) |-> HexChars[ds[i] + 1]], 32, "0")

\* two decimal digits of a number below 100
TwoDigits(n) == <<DigitChars[(n \div 10) + 1], DigitChars[(n % 10) + 1]>>

\* YYMMDDHHMMSS of a date
DateDigits(d) ==
    TwoDigits(d.year % 100) \o TwoDigits(d.month + 1) \o TwoDigits(d.date)
    \o TwoDigits(d.hours) \o TwoDigits(d.minutes) \o TwoDigits(d.seconds)

\* the length of the table prefix of a split into n parts
TablePrefixLength(n) == IF n = 4 THEN 2 ELSE 1

\* a part without its table prefix and its sequence digit
DataSlice(part, n) == SubSeq(part, TablePrefixLength(n) + 2, Len(part))

RECURSIVE ConcatAll(_)
ConcatAll(ss) == IF ss = <<>> THEN <<>> ELSE Head(ss) \o ConcatAll(Tail(ss))

\* the total length of the parts of a split into n parts
PartLength(n) ==
    CASE n = 2 -> 30 [] n = 3 -> 20 [] n = 4 -> 15 [] n = 5 -> 12 [] n = 6 -> 10

\* C1: for a payload of 60 digits and a part count in 2..6, the data slices of the
\* parts splitForCode128 returns (each part without its table prefix and sequence
\* digit), concatenated in order, are the payload itself.
SplitCoversPayload ==
    (/\ call.op = "splitForCode128"
     /\ Len(call.codeData) = 60 /\ AllDigits(call.codeData)
     /\ call.parts \in 2..6)
    => /\ ~result.threw
       /\ ConcatAll([i \in 1..Len(result.strings) |->
                        DataSlice(result.strings[i], call.parts)]) = call.codeData

\* C2: for a ZOI of 32 hexadecimal characters, a tax number in 0..99999999 and a
\* valid date, formatCodeData returns 60 decimal digits: the ZOI in decimal padded
\* to 39 digits, the tax number padded to 8 digits, YYMMDDHHMMSS, and the control
\* digit, which is the sum of the first 59 digits modulo 10.
FormatCodeDataLayout ==
    (/\ call.op = "formatCodeData"
     /\ validateZOI(call.zoi)
     /\ call.taxNumber \in 0..99999999
     /\ IsValidDateArg(call.issueDateTime))
    => /\ ~result.threw
       /\ IsCodeData(result.text)
       /\ DecimalToHex32(SubSeq(result.text, 1, 39)) = ToLowerCase(call.zoi)
       /\ SubSeq(result.text, 40, 47) = PadStart(IntToString(call.taxNumber), 8, "0")
       /\ SubSeq(result.text, 48, 59) = DateDigits(ToDateObj(call.issueDateTime))

\* C3: for a payload of 60 characters and n in 2..6, splitForCode128 returns n
\* strings; part i starts with the prefix of n ('44' for n = 4, '4' otherwise)
\* followed by the digit i, and every part is 30, 20, 15, 12, 10 characters long
\* for n = 2, 3, 4, 5, 6.
SplitPartsShape ==
    (/\ call.op = "splitForCode128"
     /\ Len(call.codeData) = 60
     /\ call.parts \in 2..6)
    => /\ ~result.threw
       /\ Len(result.strings) = call.parts
       /\ \A i \in 1..Len(result.strings) :
            LET part == result.strings[i]
                k == TablePrefixLength(call.parts)
            IN  /\ Len(part) = PartLength(call.parts)
                /\ SubSeq(part, 1, k) = Repeat("4", k)
                /\ part[k + 1] = DigitChars[i + 1]

\* a split into 4 parts, the one with the two-character prefix, has returned
SplitPartsShapeWitness ==
    /\ call.op = "splitForCode128"
    /\ call.parts = 4
    /\ call.codeData = DataSeed(2)
    /\ ~result.threw
    /\ Len(result.strings) = 4
    /\ SubSeq(result.strings[4], 1, 3) = <<"4", "4", "4">>

\* C4: for a ZOI of 32 hexadecimal characters, in either case, hexToDecimalPadded(z, 39)
\* is 39 decimal digits, and the number they denote, written as 32 hexadecimal
\* digits, is z again (case aside).
HexToDecimalRoundTrip ==
    (call.op = "hexToDecimalPadded" /\ validateZOI(call.zoi))
    => /\ ~result.threw
       /\ Len(result.text) = 39
       /\ AllDigits(result.text)
       /\ DecimalToHex32(result.text) = ToLowerCase(call.zoi)

\* an upper-case ZOI has been converted, and its decimal form needed padding
HexToDecimalRoundTripWitness ==
    /\ call.op = "hexToDecimalPadded"
    /\ validateZOI(call.zoi)
    /\ \E i \in 1..32 : call.zoi[i] \in UpperHexCharSet \ DigitCharSet
    /\ ~result.threw
    /\ result.text[1] = "0"
    /\ \E i \in 1..39 : result.text[i] # "0"

\* C5: every formattedData generateCode returns and every string it hands to a
\* renderer is valid code data (the parts handed to the Code128 renderer: digits
\* only), and an invalid ZOI, an invalid tax number or an unparsable issue date
\* makes generateCode fail with nothing rendered.
GenerateCodeRejectsInvalid ==
    call.op = "generateCode"
    => /\ ~result.threw => IsCodeData(result.text)
       /\ \A i \in 1..Len(result.rendered) :
            IF result.rendered[i].lib = "jsbarcode"
            THEN AllDigits(result.rendered[i].text)
            ELSE IsCodeData(result.rendered[i].text)
       /\ (\/ ~validateZOI(call.zoi)
           \/ ~validateTaxNumber(call.taxNumber)
           \/ ~IsValidDateArg(call.issueDateTime))
          => (result.threw /\ result.rendered = <<>>)

\* C6: formatCodeData fails, returning no payload, when the ZOI is not 32
\* hexadecimal characters and when the tax number is not 8 decimal digits; so does
\* generateQRCodeDataURL, before anything is handed to the QR library.
FormatCodeDataRejectsInvalid ==
    call.op \in {"formatCodeData", "generateQRCodeDataURL"}
    => ((~validateZOI(call.zoi) \/ ~validateTaxNumber(call.taxNumber))
        => (result.threw /\ result.text = <<>> /\ result.rendered = <<>>))

\* C7: splitForCode128 fails, returning no parts, when parts is outside 2..6 and
\* when the input is not 60 decimal digits (another length, or 60 characters that
\* are not all digits).
SplitRejectsInvalid ==
    call.op = "splitForCode128"
    => ((\/ call.parts \notin 2..6
         \/ Len(call.codeData) # 60
         \/ ~AllDigits(call.codeData))
        => (result.threw /\ result.strings = <<>>))

----------------------------------------------------------------------------
(* Properties of the token.                                                *)

\* a base64url segment read back as bytes
SegmentBytes(segment) ==
    Base64Decode(ReplaceAll(ReplaceAll(segment, 45, <<43>>), 95, <<47>>))

\* C8: createJWT returns three segments separated by two '.' characters; no
\* segment holds '=', '+', '/' or '.'; the first segment is the base64url form of
\* the JSON header, whose fields are alg = 'RS256' and subject_name, issuer_name
\* and serial as the certificate info has them, and no other; the second is the
\* base64url form of the JSON payload; the third is the base64url form of the
\* signature over the first two joined by '.'.
CreateJWTStructure ==
    call.op = "createJWT"
    => /\ ~result.threw
       /\ Cardinality({i \in 1..Len(result.token) : result.token[i] = 46}) = 2
       /\ LET parts == Split(result.token, 46)
              header == JSONparse(Utf8Decode(SegmentBytes(parts[1])))
              payload == JSONparse(Utf8Decode(SegmentBytes(parts[2])))
          IN  /\ Len(parts) = 3
              /\ \A k \in 1..3 : \A i \in 1..Len(parts[k]) :
                    parts[k][i] \notin {61, 43, 47, 46}
              /\ ~header.threw
              /\ header.value.t = "object"
              /\ header.value.keys =
                    <<Text(<<"a", "l", "g">>),
                      Text(<<"s", "u", "b", "j", "e", "c", "t", "_", "n", "a", "m", "e">>),
                      Text(<<"i", "s", "s", "u", "e", "r", "_", "n", "a", "m", "e">>),
                      Text(<<"s", "e", "r", "i", "a", "l">>)>>
              /\ header.value.vals =
                    <<JSONString(Text(<<"R", "S", "2", "5", "6">>)),
                      JSONString(call.certificateInfo.subject_name),
                      JSONString(call.certificateInfo.issuer_name),
                      JSONString(call.certificateInfo.serial)>>
              /\ ~payload.threw
              /\ payload.value = call.payload
              /\ SegmentBytes(parts[3])
                    = sign(call.privateKey,
                           sha256(Utf8Encode(parts[1] \o <<46>> \o parts[2])))

\* a token has been made whose signature segment holds a character that stands
\* for '+' or '/', and whose header and signature were padded in base64
CreateJWTStructureWitness ==
    /\ call.op = "createJWT"
    /\ ~result.threw
    /\ call.certificateInfo = CertificateInfoRef
    /\ LET parts == Split(result.token, 46)
       IN  /\ Len(parts) = 3
           /\ \E i \in 1..Len(parts[3]) : parts[3][i] \in {45, 95}
           /\ Len(parts[1]) % 4 # 0
           /\ Len(parts[3]) % 4 # 0

\* C9: decodeJWT never throws; for an input that does not split on '.' into three
\* segments, and for one whose header or payload segment is no JSON, it returns
\* valid = false, an error message, an empty header, an empty payload and an empty
\* signature.
DecodeJWTFailure ==
    call.op = "decodeJWT"
    => /\ ~result.threw
       /\ LET parts == Split(call.jwt, 46)
          IN  (\/ Len(parts) # 3
               \/ JSONparse(Utf8Decode(SegmentBytes(parts[1]))).threw
               \/ JSONparse(Utf8Decode(SegmentBytes(parts[2]))).threw)
          => /\ result.decoded.valid = FALSE
             /\ result.decoded.error # ""
             /\ result.decoded.header = JSONObject(<<>>, <<>>)
             /\ result.decoded.payload = JSONObject(<<>>, <<>>)
             /\ result.decoded.signature = <<>>

\* a token of three segments whose payload was cut short has been decoded
DecodeJWTFailureWitness ==
    /\ call.op = "decodeJWT"
    /\ call.jwt = TokenRefParts[1] \o Dot
                  \o SubSeq(TokenRefParts[2], 1, Len(TokenRefParts[2]) - 1)
                  \o Dot \o TokenRefParts[3]
    /\ ~result.threw
    /\ result.decoded.valid = FALSE
    /\ result.decoded.error = "SyntaxError: Unexpected token in JSON"

----------------------------------------------------------------------------
(* Properties of the certificate and of the client.                        *)

\* the values of the attributes of a type, whatever their order
ValuesOfType(attrs, type) ==
    {attrs[i].value : i \in {j \in 1..Len(attrs) : attrs[j].type = type}}

\* a value with every comma behind a backslash
EscapeCommas(value) ==
    ConcatAll([i \in 1..Len(value) |->
                  IF value[i] = 44 THEN <<92, 44>> ELSE <<value[i]>>])

\* the parts of a subject name by kind, in the mandated order: the values each kind
\* has to offer, rendered
SubjectPartsByKind(attrs) ==
    <<{Text(<<"C", "N", "=">>) \o EscapeCommas(v) : v \in ValuesOfType(attrs, "2.5.4.3")},
      {Text(<<"2", ".", "5", ".", "4", ".", "5", "=", "#", "1">>) :
          v \in ValuesOfType(attrs, "2.5.4.5")},
      {Text(<<"O", "U", "=">>) \o v :
          v \in {u \in ValuesOfType(attrs, "2.5.4.11") : u = DavPotRacTEST}},
      {Text(<<"O", "U", "=">>) \o v :
          v \in {u \in ValuesOfType(attrs, "2.5.4.11") :
                    u # <<>> /\ \A i \in 1..Len(u) : u[i] \in 48..57}},
      {Text(<<"O", "=">>) \o v : v \in ValuesOfType(attrs, "2.5.4.10")},
      {Text(<<"C", "=">>) \o v : v \in ValuesOfType(attrs, "2.5.4.6")}>>

\* the parts of an issuer name by kind
IssuerPartsByKind(attrs) ==
    <<ValuesOfType(attrs, "2.5.4.3"), ValuesOfType(attrs, "2.5.4.10"),
      ValuesOfType(attrs, "2.5.4.6")>>

\* the kinds that have a part
PresentKinds(byKind) == SelectSeq(byKind, LAMBDA parts : parts # {})

\* the parts joined with commas, each kind having one part at most
JoinedByKind(byKind) ==
    LET present == PresentKinds(byKind)
    IN  ConcatAll([i \in 1..Len(present) |->
                      (IF i = 1 THEN <<>> ELSE <<44>>)
                      \o (CHOOSE part \in present[i] : TRUE)])

\* the commas of a name that have no backslash before them
UnescapedCommas(name) ==
    Cardinality({i \in 1..Len(name) : name[i] = 44 /\ (i = 1 \/ name[i - 1] # 92)})

\* a bundle was loaded and its first certificate described
CertificateLoaded == call.op = "loadCertificate" /\ ~result.threw

\* C11: the subject name getCertificateInfo gives for a certificate that has one
\* attribute at most of each kind is the comma-join of the parts whose attribute
\* is there, in the order CN, the literal for OID 2.5.4.5, the marker OU, the
\* numeric OU, O, C, whatever the order of the attributes in the certificate; an
\* attribute that is not there gives no part.
SubjectNameCanonical ==
    CertificateLoaded
    => LET byKind == SubjectPartsByKind(call.certData.certBag[1].subject)
       IN  (\A k \in 1..Len(byKind) : Cardinality(byKind[k]) <= 1)
           => result.value.certificateInfo.subject_name = JoinedByKind(byKind)

\* a certificate that has its attributes in the order C, O, OU, OU, serial number,
\* CN was described
SubjectNameCanonicalWitness ==
    /\ CertificateLoaded
    /\ call.certData.certBag[1].subject = SubjectRef
    /\ result.value.certificateInfo.subject_name
         = Text(<<"C", "N", "=", "T", "E", "S", "T", " ", "1", "0", ",",
                  "2", ".", "5", ".", "4", ".", "5", "=", "#", "1", ",",
                  "O", "U", "=", "D", "a", "v", "P", "o", "t", "R", "a", "c",
                  "T", "E", "S", "T", ",",
                  "O", "U", "=", "1", "0", "4", "4", "2", "5", "2", "9", ",",
                  "O", "=", "s", "t", "a", "t", "e", ",", "C", "=", "S", "I">>)

\* C12: in the subject name and in the issuer name getCertificateInfo gives, the
\* commas without a backslash before them are the separators of the parts and no
\* others: a comma of an attribute value is escaped.
IdentityCommasEscaped ==
    CertificateLoaded
    => LET cert == call.certData.certBag[1]
           info == result.value.certificateInfo
           separators(byKind) == IF PresentKinds(byKind) = <<>> THEN 0
                                 ELSE Len(PresentKinds(byKind)) - 1
       IN  /\ UnescapedCommas(info.subject_name)
                = separators(SubjectPartsByKind(cert.subject))
           /\ UnescapedCommas(info.issuer_name)
                = separators(IssuerPartsByKind(cert.issuer))

\* C13: loadCertificate throws, returning nothing, when the bundle has no
\* certificate, has no private key or does not open with the password; what it
\* returns has a key and a certificate of the bundle; and a constructor that
\* read such a bundle throws FursAuthenticationError, no client resulting.
LoadCertificateFails ==
    LET unusable(bundle, password) ==
            \/ ~bundle.der
            \/ bundle.password # password
            \/ bundle.certBag = <<>>
            \/ \A i \in 1..Len(bundle.keyBag) : ~bundle.keyBag[i].hasKey
    IN  /\ call.op = "loadCertificate"
           => /\ unusable(call.certData, call.password)
                 => (result.threw /\ result.value = <<>>)
              /\ ~result.threw
                 => /\ \E i \in 1..Len(call.certData.keyBag) :
                         /\ call.certData.keyBag[i].hasKey
                         /\ result.value.privateKey = call.certData.keyBag[i].key
                    /\ call.certData.certBag # <<>>
                    /\ call.certData.certBag[1].present
                    /\ result.value.certificateCount >= 1
        /\ (/\ call.op = "constructor"
            /\ result.reads # <<>>
            /\ result.reads[1] \in DOMAIN Files
            /\ unusable(Files[result.reads[1]], call.config.certPassword))
           => /\ result.threw
              /\ result.name = "FursAuthenticationError"
              /\ ~client.constructed

\* a constructor read a bundle without a private key and threw
LoadCertificateFailsWitness ==
    /\ call.op = "constructor"
    /\ call.config.certPath = "nokey.p12"
    /\ result.reads = <<"nokey.p12">>
    /\ result.threw
    /\ result.name = "FursAuthenticationError"
    /\ ~client.constructed

ResponseNameOf(op) ==
    IF op = "registerBusinessPremise" THEN Text(<<"B", "u", "s", "i", "n", "e", "s", "s", "P", "r", "e", "m", "i", "s", "e", "R", "e", "s", "p", "o", "n", "s", "e">>)
    ELSE Text(<<"I", "n", "v", "o", "i", "c", "e", "R", "e", "s", "p", "o", "n", "s", "e">>)
ErrorObjectOf(op, sent) ==
    IF sent.threw \/ sent.value.decoded.kind # "object" THEN Undefined
    ELSE OptGet(OptGet(sent.value.decoded.jwt.payload, ResponseNameOf(op)), Text(<<"E", "r", "r", "o", "r">>))

\* a request of fiscalizeInvoice or registerBusinessPremise has settled
RequestSettled ==
    /\ call.op \in {"fiscalizeInvoice", "registerBusinessPremise"}
    /\ call.request # NoRequest

\* C14: when the decoded response carries an Error object in its InvoiceResponse
\* (BusinessPremiseResponse), fiscalizeInvoice (registerBusinessPremise) rejects
\* with a FursError whose code is the ErrorCode of that object.
ErrorResponseRejects ==
    (RequestSettled /\ Truthy(ErrorObjectOf(call.op, call.sent)))
    => /\ result.threw
       /\ result.name = "FursError"
       /\ result.code = Get(ErrorObjectOf(call.op, call.sent), Text(<<"E", "r", "r", "o", "r", "C", "o", "d", "e">>))

\* C15: a fiscalizeInvoice that resolves gives a boolean success, true exactly
\* when the response carried a UniqueInvoiceID (uniqueInvoiceId is a non-empty
\* string), and a zoi of 32 characters.
FiscalizeSuccessIsBoolean ==
    (call.op = "fiscalizeInvoice" /\ ~result.threw)
    => /\ result.value.success.t = "boolean"
       /\ result.value.success = JSONBoolean(TRUE)
          <=> (/\ result.value.uniqueInvoiceId.t = "string"
               /\ result.value.uniqueInvoiceId.s # <<>>)
       /\ Len(result.value.zoi) = 32

\* C16: registerBusinessPremise resolves with success = true only if the reply was
\* JSON with a token that decoded validly.
PremiseSuccessNeedsToken ==
    (/\ call.op = "registerBusinessPremise"
     /\ ~result.threw
     /\ result.value.success = JSONBoolean(TRUE))
    => /\ ~call.reply.failed
       /\ ~JSONparse(call.reply.data).threw
       /\ Truthy(OptGet(JSONparse(call.reply.data).value, Text(<<"t", "o", "k", "e", "n">>)))
       /\ call.sent.value.decoded.kind = "object"
       /\ call.sent.value.decoded.jwt.valid

\* C19: when the request emits an error, fiscalizeInvoice and
\* registerBusinessPremise reject with a FursNetworkError.
NetworkFailureRejects ==
    (RequestSettled /\ call.reply.failed)
    => /\ result.threw
       /\ result.name = "FursNetworkError"

\* the CA certificates a directory gives: one for each of its certificate files,
\* none if a file cannot be read as a certificate
UsableCaFiles(path) ==
    IF path \notin DOMAIN Directories THEN <<>>
    ELSE LET certFiles == SelectSeq(Directories[path],
                                    LAMBDA file : file.ext \in {".cer", ".crt", ".pem"})
         IN  IF \E i \in 1..Len(certFiles) : certFiles[i].kind \notin {"pem", "der"} THEN <<>>
             ELSE certFiles

\* C17: strictTLS is on unless the configuration sets it to false; a client
\* constructed with it on has at least one CA certificate, and the construction
\* fails with FursAuthenticationError if there is none to load; every request of
\* such a client has rejectUnauthorized = true and exactly the client's CA
\* certificates, and only a client with strictTLS off sends rejectUnauthorized =
\* false.
StrictTLSByDefault ==
    LET requests == [i \in 1..Len(pending) |-> pending[i].request]
                    \o (IF /\ call.op \in {"fiscalizeInvoice", "registerBusinessPremise",
                                           "fiscalizeInvoiceWithCodes"}
                           /\ call.request # NoRequest
                        THEN <<call.request>> ELSE <<>>)
    IN  /\ (call.op = "constructor" /\ ~result.threw)
           => /\ client.constructed
              /\ client.config.strictTLS = (call.config.strictTLS # "false")
        /\ (/\ call.op = "constructor"
            /\ result.reads # <<>>
            /\ call.config.strictTLS # "false"
            /\ UsableCaFiles(IF call.config.caCertsPath # "" THEN call.config.caCertsPath
                             ELSE IF call.config.environment = "production"
                             THEN "certs-production" ELSE "certs-test") = <<>>)
           => (result.threw /\ result.name = "FursAuthenticationError")
        /\ (client.constructed /\ client.config.strictTLS) => Len(client.caCerts) >= 1
        /\ \A i \in 1..Len(requests) :
            /\ client.config.strictTLS
               => /\ requests[i].rejectUnauthorized = TRUE
                  /\ requests[i].ca.defined
                  /\ requests[i].ca.certs = client.caCerts
            /\ requests[i].rejectUnauthorized = FALSE => ~client.config.strictTLS
            /\ ~client.config.strictTLS => ~requests[i].ca.defined

\* a client with strict TLS has a request in flight
StrictTLSByDefaultWitness ==
    /\ client.constructed
    /\ client.config.strictTLS
    /\ Len(client.caCerts) = 2
    /\ Len(pending) = 1
    /\ pending[1].request.rejectUnauthorized

\* C20: once the client is constructed no step changes its private key, its
\* certificate information, its certificate data, its CA certificates or its
\* configuration.
ClientNeverChanges ==
    [][client.constructed
       => /\ client'.privateKey = client.privateKey
          /\ client'.certificateInfo = client.certificateInfo
          /\ client'.certData = client.certData
          /\ client'.caCerts = client.caCerts
          /\ client'.config = client.config]_vars

\* a fiscalization with codes was answered and its codes were generated
ClientNeverChangesWitness ==
    /\ client.constructed
    /\ call.op = "fiscalizeInvoiceWithCodes"
    /\ ~result.threw
    /\ "codes" \in DOMAIN result.value

----------------------------------------------------------------------------
(* Properties of the codes and the requests of the client.                  *)

\* C21: FursClient.generateCode128 with the format strings, on a valid ZOI, returns
\* exactly parts strings, the parts of the code data in their order, for parts in
\* 2..6, and for every other part count it throws the error of the part count.
Code128StringsCount ==
    (/\ call.op = "FursClient.generateCode128"
     /\ call.options.format = "strings"
     /\ validateZOI(call.zoi))
    => IF call.parts \in 2..6
       THEN /\ ~result.threw
            /\ Len(result.strings) = call.parts
            /\ result.strings = splitForCode128(result.text, call.parts).value
       ELSE /\ result.threw
            /\ result.error = "Number of parts must be between 2 and 6"

\* the reference values of the FURS specification
RefDecimal1 == <<"2", "2", "3", "1", "7", "5", "0", "8", "7", "9", "2", "3", "6", "8", "7", "0", "7", "5", "1", "1", "2", "2", "3", "4", "4", "0", "2", "5", "2", "8", "9", "7", "3", "1", "6", "6", "7", "5", "5">>
RefDecimal2 == <<"0", "6", "3", "9", "9", "4", "5", "1", "9", "7", "0", "8", "6", "4", "9", "8", "9", "6", "9", "0", "1", "2", "6", "0", "1", "0", "0", "4", "4", "7", "2", "5", "2", "3", "5", "9", "4", "4", "3">>
RefFormatted1 == <<"2", "2", "3", "1", "7", "5", "0", "8", "7", "9", "2", "3", "6", "8", "7", "0", "7", "5", "1", "1", "2", "2", "3", "4", "4", "0", "2", "5", "2", "8", "9", "7", "3", "1", "6", "6", "7", "5", "5", "1", "2", "3", "4", "5", "6", "7", "8", "1", "5", "0", "8", "1", "5", "1", "0", "1", "3", "3", "2", "1">>
RefFormatted2 == <<"0", "6", "3", "9", "9", "4", "5", "1", "9", "7", "0", "8", "6", "4", "9", "8", "9", "6", "9", "0", "1", "2", "6", "0", "1", "0", "0", "4", "4", "7", "2", "5", "2", "3", "5", "9", "4", "4", "3", "1", "2", "3", "4", "5", "6", "7", "8", "1", "5", "0", "8", "1", "5", "1", "0", "1", "3", "3", "2", "0">>
RefDates == {DateArg(DateRef), StringArg(DateStringRef)}

\* C22: hexToDecimalPadded and formatCodeData give the reference values: the first
\* ZOI 223175087923687075112234402528973166755 and, with the tax number 12345678 and
\* the local time 2015-08-15 10:13:32, the code data that ends in the control digit 1;
\* the second ZOI 063994519708649896901260100447252359443, its leading zero kept,
\* and the control digit 0.
ReferenceVectors ==
    /\ (call.op = "hexToDecimalPadded" /\ call.zoi = ZoiRef1)
       => (~result.threw /\ result.text = RefDecimal1)
    /\ (call.op = "hexToDecimalPadded" /\ call.zoi = ZoiRef2)
       => (~result.threw /\ result.text = RefDecimal2)
    /\ (/\ call.op = "formatCodeData"
        /\ call.taxNumber = 12345678
        /\ call.issueDateTime \in RefDates)
       => /\ call.zoi = ZoiRef1
             => /\ ~result.threw
                /\ result.text = RefFormatted1
                /\ result.text[60] = "1"
          /\ call.zoi = ZoiRef2
             => /\ ~result.threw
                /\ result.text = RefFormatted2
                /\ SubSeq(result.text, 1, 39) = RefDecimal2
                /\ result.text[60] = "0"

\* the code data of the second reference vector was formatted
ReferenceVectorsWitness ==
    /\ call.op = "formatCodeData"
    /\ call.zoi = ZoiRef2
    /\ call.taxNumber = 12345678
    /\ call.issueDateTime = DateArg(DateRef)
    /\ Len(result.text) = 60
    /\ result.text[1] = "0"

\* a string in which every surrogate is half of a pair
IsWellFormed(s) ==
    \A i \in 1..Len(s) :
        /\ IsHighSurrogate(s[i]) => (i < Len(s) /\ IsLowSurrogate(s[i + 1]))
        /\ IsLowSurrogate(s[i]) => (i > 1 /\ IsHighSurrogate(s[i - 1]))

\* the characters '+', '/' and '='
NotUrlSafe == {43, 47, 61}

\* C23 as stated: base64urlDecode gives back every string that base64urlEncode
\* encoded, the empty one too, and what base64urlEncode gives holds no '=', '+' or '/'.
Base64urlRoundTripEveryString ==
    call.op = "base64urlEncode"
    => /\ \A i \in 1..Len(result.text) : result.text[i] \notin NotUrlSafe
       /\ call.input.isString => base64urlDecode(result.text) = call.input.str

\* C23: base64urlDecode gives back every string without a lone surrogate that
\* base64urlEncode encoded, the empty one too, and what base64urlEncode gives, of a
\* string or of a Buffer, holds no '=', '+' or '/'.
Base64urlRoundTrip ==
    call.op = "base64urlEncode"
    => /\ \A i \in 1..Len(result.text) : result.text[i] \notin NotUrlSafe
       /\ (call.input.isString /\ IsWellFormed(call.input.str))
          => base64urlDecode(result.text) = call.input.str

\* a string of a surrogate pair and a character of three bytes was encoded, and its
\* bytes do not fill the last group
Base64urlRoundTripWitness ==
    /\ call.op = "base64urlEncode"
    /\ call.input.isString
    /\ call.input.str = <<55357, 56832, 8364>>
    /\ Len(result.text) = 10

\* the result has the codes attached
HasCodes(r) == ~r.threw /\ "codes" \in DOMAIN r.value

\* what fiscalizeInvoiceWithCodes settles with, given what its fiscalizeInvoice
\* settled with
CodesFollowFiscalization(fiscalized) ==
    /\ fiscalized.threw => result = fiscalized
    /\ (~fiscalized.threw
        /\ ~(call.args.generateCodes /\ Truthy(fiscalized.value.success)))
       => result = fiscalized
    /\ (~fiscalized.threw
        /\ call.args.generateCodes /\ Truthy(fiscalized.value.success))
       => \/ result.threw
          \/ /\ HasCodes(result)
             /\ \A field \in DOMAIN fiscalized.value :
                    result.value[field] = fiscalized.value[field]
             /\ DOMAIN result.value = DOMAIN fiscalized.value \cup {"codes"}

\* C24: fiscalizeInvoiceWithCodes generates the codes only after its fiscalizeInvoice
\* has resolved: the step that attaches codes is the one that takes the reply of the
\* request; the codes are attached only if generateCodes is true and the success of
\* the fiscalization is truthy, and otherwise the result of the fiscalization is
\* returned as it is, without codes; if fiscalizeInvoice rejects, so does the call,
\* with the same error and without codes.
CodesAfterFiscalization ==
    /\ [](call.op = "fiscalizeInvoiceWithCodes"
          => /\ call.request = NoRequest => (result.threw /\ ~HasCodes(result))
             /\ call.request # NoRequest
                => CodesFollowFiscalization(
                       fiscalizeInvoiceResume(client, call.locals, call.sent))
             /\ HasCodes(result)
                => /\ call.args.generateCodes
                   /\ Truthy(result.value.success)
                   /\ ~call.reply.failed
                   /\ ~call.sent.threw)
    /\ [][(call'.op = "fiscalizeInvoiceWithCodes" /\ HasCodes(result'))
          => /\ Len(pending) = Len(pending') + 1
             /\ \E i \in 1..Len(pending) :
                    /\ pending[i].op = "fiscalizeInvoiceWithCodes"
                    /\ pending[i].request = call'.request
                    /\ pending' = SubSeq(pending, 1, i - 1)
                                  \o SubSeq(pending, i + 1, Len(pending))]_vars

\* a fiscalization that was asked for codes as data URLs succeeded, and the codes
\* were handed to the three renderers
CodesAfterFiscalizationWitness ==
    /\ call.op = "fiscalizeInvoiceWithCodes"
    /\ call.args.generateCodes
    /\ call.args.codeFormat = "dataUrl"
    /\ HasCodes(result)
    /\ result.value.codes.qr.calls # <<>>
    /\ result.value.codes.code128.calls # <<>>

\* C25: two calls of generateId with the same prefix return different identifiers,
\* also when no time passes between them.
GenerateIdUnique ==
    (/\ call.op = "generateId"
     /\ earlier.op = "generateId"
     /\ earlier.prefix = call.prefix)
    => result.text # earlier.id

\* the invoice of a fiscalization, and the Invoice of the request it sent
InvoiceAsked == IF call.op = "fiscalizeInvoice" THEN call.args ELSE call.args.invoice
InvoiceSent ==
    Get(Get(call.locals.payload, Text(<<"I", "n", "v", "o", "i", "c", "e", "R", "e", "q", "u", "e", "s", "t">>)), Text(<<"I", "n", "v", "o", "i", "c", "e">>))

\* the text that was signed into the ZOI of the fiscalization
ZoiInputSigned ==
    zoiInputOf(client.config.taxNumber, call.locals.issueDateTime,
               call.locals.invoiceNumber, InvoiceAsked.businessPremiseId,
               InvoiceAsked.electronicDeviceId, InvoiceAsked.invoiceAmount,
               call.locals.tz).value

\* C26: the date and time signed into the ZOI of a fiscalization, YYYY-MM-DD
\* HH:MM:SS, is the date and time of the IssueDateTime that the same request
\* carries, YYYY-MM-DDTHH:MM:SS.
ZoiTimestampIsIssueDateTime ==
    (/\ call.op \in {"fiscalizeInvoice", "fiscalizeInvoiceWithCodes"}
     /\ call.request # NoRequest)
    => LET n == Len(IntToString(client.config.taxNumber))
       IN  /\ call.locals.zoi
                = md5Hex(sign(client.privateKey,
                              sha256(Utf8Encode(Text(ZoiInputSigned)))))
           /\ Get(InvoiceSent, Text(<<"P", "r", "o", "t", "e", "c", "t", "e", "d", "I", "D">>)) = JSONString(Text(call.locals.zoi))
           /\ Get(InvoiceSent, Text(<<"I", "s", "s", "u", "e", "D", "a", "t", "e", "T", "i", "m", "e">>))
                = JSONString(Text([i \in 1..19 |->
                                     IF ZoiInputSigned[n + i] = " " THEN "T"
                                     ELSE ZoiInputSigned[n + i]]))

\* the date and time YYYY-MM-DDTHH:MM:SS, of this century, that the twelve digits
\* YYMMDDHHMMSS stand for
DateTimeOfDigits(d) ==
    <<"2", "0", d[1], d[2], "-", d[3], d[4], "-", d[5], d[6], "T", d[7], d[8], ":",
      d[9], d[10], ":", d[11], d[12]>>

\* C27: the twelve digits of the date in the code data of the codes that
\* fiscalizeInvoiceWithCodes generates are the date and time of the IssueDateTime
\* of its request and of the text signed into its ZOI, also when the invoice gives
\* no issueDateTime and time passes before the reply.
CodeDateIsIssueDateTime ==
    (call.op = "fiscalizeInvoiceWithCodes" /\ HasCodes(result))
    => LET n == Len(IntToString(client.config.taxNumber))
           date == DateTimeOfDigits(SubSeq(result.value.codes.qr.formattedData, 48, 59))
       IN  /\ result.value.codes.pdf417.formattedData
                = result.value.codes.qr.formattedData
           /\ result.value.codes.code128.formattedData
                = result.value.codes.qr.formattedData
           /\ Get(InvoiceSent, Text(<<"I", "s", "s", "u", "e", "D", "a", "t", "e", "T", "i", "m", "e">>)) = JSONString(Text(date))
           /\ SubSeq(ZoiInputSigned, n + 1, n + 19) = [date EXCEPT ![11] = " "]

\* the signature segments a token is given in place of its own: none, one that no
\* key gave, and the one of another token
ForgedSignatures == {<<>>, Text(<<"A", "A", "A", "A">>), Split(TokenText, 46)[3]}

\* the token with its third segment replaced
WithSignature(jwt, s) ==
    Bind(Split(jwt, 46), LAMBDA parts : parts[1] \o Dot \o parts[2] \o Dot \o s)

\* the token of a reply that is a JSON object holding a token and nothing else
TokenOfReply(reply) ==
    Bind(JSONparse(reply.data), LAMBDA response :
        IF response.threw \/ IsNullish(response.value) THEN <<>>
        ELSE Bind(Get(response.value, Text(<<"t", "o", "k", "e", "n">>)), LAMBDA token :
            IF token.t = "string" /\ reply = ReplyWithToken(token.s) THEN token.s
            ELSE <<>>))

\* C28: what decodeJWT returns but for the signature (the header, the payload and
\* valid) does not depend on the third segment of the token; and what
\* fiscalizeInvoice and registerBusinessPremise settle with does not depend on the
\* third segment of the token of the reply.
DecodeIgnoresSignature ==
    /\ (call.op = "decodeJWT" /\ Len(Split(call.jwt, 46)) = 3)
       => \A s \in ForgedSignatures :
             LET forged == decodeJWT(WithSignature(call.jwt, s)).value
             IN  /\ forged.header = result.decoded.header
                 /\ forged.payload = result.decoded.payload
                 /\ forged.valid = result.decoded.valid
                 /\ forged.valid => forged.signature = s
    /\ (/\ RequestSettled
        /\ ~call.reply.failed
        /\ Len(Split(TokenOfReply(call.reply), 46)) = 3)
       => \A s \in ForgedSignatures :
             LET forged == sendRequestEnd(call.reply.statusCode,
                               ReplyWithToken(WithSignature(TokenOfReply(call.reply),
                                                            s)).data)
             IN  result = IF call.op = "fiscalizeInvoice"
                          THEN fiscalizeInvoiceResume(client, call.locals, forged)
                          ELSE registerBusinessPremiseResume(client, call.locals, forged)

\* an invoice was fiscalized on a reply whose token decoded validly
DecodeIgnoresSignatureWitness ==
    /\ call.op = "fiscalizeInvoice"
    /\ call.request # NoRequest
    /\ Len(Split(TokenOfReply(call.reply), 46)) = 3
    /\ call.sent.value.decoded.kind = "object"
    /\ call.sent.value.decoded.jwt.valid
    /\ ~result.threw
    /\ Truthy(result.value.success)

\* C29: decodeJWT of the token createJWT returns is valid, its header holds alg
\* RS256 and the subject name, the issuer name and the serial of the certificate
\* info, its payload is what JSON.parse gives of JSON.stringify of the payload, and
\* its signature is the third segment of the token
TokenRoundTrip ==
    call.op = "createJWT" =>
        \E decoded \in {decodeJWT(result.token)} :
            /\ ~result.threw
            /\ ~decoded.threw
            /\ decoded.value.valid
            /\ decoded.value.header
                   = JSONObject(<<Text(<<"a", "l", "g">>), Text(<<"s", "u", "b", "j", "e", "c", "t", "_", "n", "a", "m", "e">>), Text(<<"i", "s", "s", "u", "e", "r", "_", "n", "a", "m", "e">>), Text(<<"s", "e", "r", "i", "a", "l">>)>>,
                                <<JSONString(Text(<<"R", "S", "2", "5", "6">>)),
                                  JSONString(call.certificateInfo.subject_name),
                                  JSONString(call.certificateInfo.issuer_name),
                                  JSONString(call.certificateInfo.serial)>>)
            /\ decoded.value.payload = JSONparse(JSONstringify(call.payload)).value
            /\ decoded.value.signature = Split(result.token, 46)[3]

\* a token of a payload whose string holds escapes, a character outside the basic
\* plane or a lone surrogate, and of a certificate info with a name outside ASCII,
\* decoded to a valid result
TokenRoundTripWitness ==
    /\ call.op = "createJWT"
    /\ ~result.threw
    /\ call.payload \in {PayloadText, PayloadLone}
    /\ call.certificateInfo = CertificateInfoRef
    /\ decodeJWT(result.token).value.valid
    /\ decodeJWT(result.token).value.payload = call.payload

\* the body of a reply, after the white space trim removes, starts with '<'
StartsWithTag(data) ==
    Bind(SkipWhile(data, 1, TrimmedWhitespace), LAMBDA first :
        first <= Len(data) /\ data[first] = 60)

\* the promise was rejected with a FursError
RejectedWithFursError(sent) == sent.threw /\ sent.name = "FursError"

\* C30: the promise of sendRequest settles with an outcome the terminating event
\* fixes: it is rejected with a FursError when the request emits an error or the
\* body starts with '<'; it is resolved with the status code, the parsed body and
\* decoded (null when the body holds no token) when the body is JSON; and it is
\* resolved with the status code, the raw body and an error, and no decoded, when
\* the body is no JSON. (The promise settles once: the step that settles it takes
\* the request out of the requests in flight.)
SendRequestOutcome ==
    RequestSettled =>
        \E sent \in {call.sent}, parsed \in {JSONparse(call.reply.data)} :
            IF call.reply.failed \/ StartsWithTag(call.reply.data)
            THEN RejectedWithFursError(sent)
            ELSE IF ~parsed.threw
            THEN /\ ~sent.threw
                 /\ sent.value.statusCode = call.reply.statusCode
                 /\ sent.value.response = parsed.value
                 /\ sent.value.error = ""
                 /\ sent.value.decoded.kind # "undefined"
                 /\ (IsNullish(parsed.value) \/ Get(parsed.value, Text(<<"t", "o", "k", "e", "n">>)) = Undefined)
                        => sent.value.decoded = DecodedNull
            ELSE /\ ~sent.threw
                 /\ sent.value = FursResponseOf(call.reply.statusCode,
                                                JSONString(call.reply.data),
                                                DecodedAbsent, parsed.error)

====
